---- MODULE Spec2Model ----
(***************************************************************************)
(* The failure classifier of the spotDL wrapper: parse_failed_downloads of *)
(* src/spotdl_downloader.py and its copy _parse_failed_downloads of        *)
(* src/spotdl_gui/app.py.                                                  *)
(*                                                                         *)
(* A Python str is modelled as the sequence of its characters, each a      *)
(* string, so that the two regular expressions, str.strip, the substring   *)
(* test, the f-strings and sorted() are computed character by character.   *)
(* A printable ASCII character other than the grave accent, and a tab, a   *)
(* newline, a form feed and a carriage return, is the string of that one   *)
(* character; every other character is the string "U+" followed by its     *)
(* code point in hexadecimal, so 'e' with an acute accent is "U+00E9".     *)
(* Positions in a line are 1-based; a position p in 1..Len(line)+1 stands  *)
(* for the gap before character p.  The cursor i and the lookahead index j *)
(* keep Python's 0-based values.                                           *)
(***************************************************************************)
EXTENDS Integers, Sequences, FiniteSets, TLC

VARIABLES output_lines, i, failed_songs, pc, result,
          frontend, buttons, run, after_queue, orphans,
          request, console, log_call, clear_call,
          session, save_file_var

\* The locals and the return value of one call of the classifier.
classifier == <<output_lines, i, failed_songs, pc, result>>

\* The state of a front-end: which one it is, the four action buttons of
\* the GUI, the command runs, the pending after(0, ...) callbacks and the
\* external processes no Popen object waits for any more; the operation
\* the user asked for last, until its process is started or when it was
\* not started, the output console, and the calls of log_message and _clear_log under
\* way; how many operations the user still asks for before leaving the
\* program (the choices 1 to 4 typed at main_menu before 'Exit', the
\* presses of the four action buttons before the window is closed), and
\* the text of the 'Save/Sync State File' field of the GUI as it was read
\* or set last.
front == <<frontend, buttons, run, after_queue, orphans,
          request, console, log_call, clear_call, session, save_file_var>>

\* The output console of the GUI and the calls of log_message and of
\* _clear_log that are under way.
display == <<console, log_call, clear_call>>

vars == <<output_lines, i, failed_songs, pc, result,
          frontend, buttons, run, after_queue, orphans,
          request, console, log_call, clear_call, session, save_file_var>>

----------------------------------------------------------------------------
(* Characters and the str operations the classifier uses.                  *)

\* The printable ASCII characters in code-point order: 32 (space) to 95, and
\* 97 to 126 (the grave accent, 96, is among the named characters).
AsciiLow ==
  << " ", "!", "\"", "#", "$", "%", "&", "'", "(", ")", "*", "+", ",", "-", ".", "/",
     "0", "1", "2", "3", "4", "5", "6", "7", "8", "9", ":", ";", "<", "=", ">", "?",
     "@", "A", "B", "C", "D", "E", "F", "G", "H", "I", "J", "K", "L", "M", "N", "O",
     "P", "Q", "R", "S", "T", "U", "V", "W", "X", "Y", "Z", "[", "\\", "]", "^", "_" >>

AsciiHigh ==
  << "a", "b", "c", "d", "e", "f", "g", "h", "i", "j", "k", "l", "m", "n", "o",
     "p", "q", "r", "s", "t", "u", "v", "w", "x", "y", "z", "{", "|", "}", "~" >>

\* The characters that cannot be written as themselves in a string of
\* this module, each under the name "U+" and its code point in hexadecimal,
\* with its code point: the control characters without an escape, the
\* grave accent, U+007F, U+0080 to U+00FF, the whitespace above U+00FF, and
\* U+0301 (a combining accent), U+2014 (a dash), U+4E2D (a CJK letter) and
\* U+1F3B5 (a symbol outside the basic plane) for the rest of Unicode.
NamedCharacters ==
  << <<"U+0000", 0>>, <<"U+0001", 1>>, <<"U+0002", 2>>, <<"U+0003", 3>>, <<"U+0004", 4>>,
     <<"U+0005", 5>>, <<"U+0006", 6>>, <<"U+0007", 7>>, <<"U+0008", 8>>, <<"U+000B", 11>>,
     <<"U+000E", 14>>, <<"U+000F", 15>>, <<"U+0010", 16>>, <<"U+0011", 17>>, <<"U+0012", 18>>,
     <<"U+0013", 19>>, <<"U+0014", 20>>, <<"U+0015", 21>>, <<"U+0016", 22>>, <<"U+0017", 23>>,
     <<"U+0018", 24>>, <<"U+0019", 25>>, <<"U+001A", 26>>, <<"U+001B", 27>>, <<"U+001C", 28>>,
     <<"U+001D", 29>>, <<"U+001E", 30>>, <<"U+001F", 31>>, <<"U+0060", 96>>, <<"U+007F", 127>>,
     <<"U+0080", 128>>, <<"U+0081", 129>>, <<"U+0082", 130>>, <<"U+0083", 131>>, <<"U+0084", 132>>,
     <<"U+0085", 133>>, <<"U+0086", 134>>, <<"U+0087", 135>>, <<"U+0088", 136>>, <<"U+0089", 137>>,
     <<"U+008A", 138>>, <<"U+008B", 139>>, <<"U+008C", 140>>, <<"U+008D", 141>>, <<"U+008E", 142>>,
     <<"U+008F", 143>>, <<"U+0090", 144>>, <<"U+0091", 145>>, <<"U+0092", 146>>, <<"U+0093", 147>>,
     <<"U+0094", 148>>, <<"U+0095", 149>>, <<"U+0096", 150>>, <<"U+0097", 151>>, <<"U+0098", 152>>,
     <<"U+0099", 153>>, <<"U+009A", 154>>, <<"U+009B", 155>>, <<"U+009C", 156>>, <<"U+009D", 157>>,
     <<"U+009E", 158>>, <<"U+009F", 159>>, <<"U+00A0", 160>>, <<"U+00A1", 161>>, <<"U+00A2", 162>>,
     <<"U+00A3", 163>>, <<"U+00A4", 164>>, <<"U+00A5", 165>>, <<"U+00A6", 166>>, <<"U+00A7", 167>>,
     <<"U+00A8", 168>>, <<"U+00A9", 169>>, <<"U+00AA", 170>>, <<"U+00AB", 171>>, <<"U+00AC", 172>>,
     <<"U+00AD", 173>>, <<"U+00AE", 174>>, <<"U+00AF", 175>>, <<"U+00B0", 176>>, <<"U+00B1", 177>>,
     <<"U+00B2", 178>>, <<"U+00B3", 179>>, <<"U+00B4", 180>>, <<"U+00B5", 181>>, <<"U+00B6", 182>>,
     <<"U+00B7", 183>>, <<"U+00B8", 184>>, <<"U+00B9", 185>>, <<"U+00BA", 186>>, <<"U+00BB", 187>>,
     <<"U+00BC", 188>>, <<"U+00BD", 189>>, <<"U+00BE", 190>>, <<"U+00BF", 191>>, <<"U+00C0", 192>>,
     <<"U+00C1", 193>>, <<"U+00C2", 194>>, <<"U+00C3", 195>>, <<"U+00C4", 196>>, <<"U+00C5", 197>>,
     <<"U+00C6", 198>>, <<"U+00C7", 199>>, <<"U+00C8", 200>>, <<"U+00C9", 201>>, <<"U+00CA", 202>>,
     <<"U+00CB", 203>>, <<"U+00CC", 204>>, <<"U+00CD", 205>>, <<"U+00CE", 206>>, <<"U+00CF", 207>>,
     <<"U+00D0", 208>>, <<"U+00D1", 209>>, <<"U+00D2", 210>>, <<"U+00D3", 211>>, <<"U+00D4", 212>>,
     <<"U+00D5", 213>>, <<"U+00D6", 214>>, <<"U+00D7", 215>>, <<"U+00D8", 216>>, <<"U+00D9", 217>>,
     <<"U+00DA", 218>>, <<"U+00DB", 219>>, <<"U+00DC", 220>>, <<"U+00DD", 221>>, <<"U+00DE", 222>>,
     <<"U+00DF", 223>>, <<"U+00E0", 224>>, <<"U+00E1", 225>>, <<"U+00E2", 226>>, <<"U+00E3", 227>>,
     <<"U+00E4", 228>>, <<"U+00E5", 229>>, <<"U+00E6", 230>>, <<"U+00E7", 231>>, <<"U+00E8", 232>>,
     <<"U+00E9", 233>>, <<"U+00EA", 234>>, <<"U+00EB", 235>>, <<"U+00EC", 236>>, <<"U+00ED", 237>>,
     <<"U+00EE", 238>>, <<"U+00EF", 239>>, <<"U+00F0", 240>>, <<"U+00F1", 241>>, <<"U+00F2", 242>>,
     <<"U+00F3", 243>>, <<"U+00F4", 244>>, <<"U+00F5", 245>>, <<"U+00F6", 246>>, <<"U+00F7", 247>>,
     <<"U+00F8", 248>>, <<"U+00F9", 249>>, <<"U+00FA", 250>>, <<"U+00FB", 251>>, <<"U+00FC", 252>>,
     <<"U+00FD", 253>>, <<"U+00FE", 254>>, <<"U+00FF", 255>>, <<"U+0301", 769>>, <<"U+1680", 5760>>,
     <<"U+2000", 8192>>, <<"U+2001", 8193>>, <<"U+2002", 8194>>, <<"U+2003", 8195>>, <<"U+2004", 8196>>,
     <<"U+2005", 8197>>, <<"U+2006", 8198>>, <<"U+2007", 8199>>, <<"U+2008", 8200>>, <<"U+2009", 8201>>,
     <<"U+200A", 8202>>, <<"U+2014", 8212>>, <<"U+2028", 8232>>, <<"U+2029", 8233>>, <<"U+202F", 8239>>,
     <<"U+205F", 8287>>, <<"U+3000", 12288>>, <<"U+4E2D", 20013>>, <<"U+1F3B5", 127925>> >>

\* ord(c) for every character of the model.
OrdTable ==
  [c \in {AsciiLow[k] : k \in 1..Len(AsciiLow)}
         \cup {AsciiHigh[k] : k \in 1..Len(AsciiHigh)}
         \cup {"\t", "\n", "\f", "\r"}
         \cup {NamedCharacters[k][1] : k \in 1..Len(NamedCharacters)} |->
     IF c = "\t" THEN 9
     ELSE IF c = "\n" THEN 10
     ELSE IF c = "\f" THEN 12
     ELSE IF c = "\r" THEN 13
     ELSE IF \E k \in 1..Len(NamedCharacters) : NamedCharacters[k][1] = c
          THEN NamedCharacters[CHOOSE k \in 1..Len(NamedCharacters) : NamedCharacters[k][1] = c][2]
     ELSE IF \E k \in 1..Len(AsciiLow) : AsciiLow[k] = c
          THEN 31 + (CHOOSE k \in 1..Len(AsciiLow) : AsciiLow[k] = c)
          ELSE 96 + (CHOOSE k \in 1..Len(AsciiHigh) : AsciiHigh[k] = c)]

Ord(c) == OrdTable[c]

Minimum(S) == CHOOSE x \in S : \A y \in S : x <= y

Maximum(S) == CHOOSE x \in S : \A y \in S : y <= x

\* What '\s' matches and what str.strip() removes (str patterns, Unicode):
\* the characters c with c.isspace(), all the whitespace of Unicode, U+0009
\* to U+000D, U+001C to U+0020, U+0085, U+00A0, U+1680, U+2000 to U+200A,
\* U+2028, U+2029, U+202F, U+205F and U+3000.
IsSpace(c) ==
  c \in
  { "\t", "\n", "U+000B", "\f", "\r", "U+001C", "U+001D", "U+001E",
    "U+001F", " ", "U+0085", "U+00A0", "U+1680", "U+2000", "U+2001",
    "U+2002", "U+2003", "U+2004", "U+2005", "U+2006", "U+2007", "U+2008",
    "U+2009", "U+200A", "U+2028", "U+2029", "U+202F", "U+205F", "U+3000" }

\* The characters of the model that '\w' matches (str patterns, Unicode):
\* c.isalnum() or c is '_'.
WordCharacters ==
  { "0", "1", "2", "3", "4", "5", "6", "7", "8", "9", "A", "B", "C", "D",
    "E", "F", "G", "H", "I", "J", "K", "L", "M", "N", "O", "P", "Q", "R",
    "S", "T", "U", "V", "W", "X", "Y", "Z", "_", "a", "b", "c", "d", "e",
    "f", "g", "h", "i", "j", "k", "l", "m", "n", "o", "p", "q", "r", "s",
    "t", "u", "v", "w", "x", "y", "z", "U+00AA", "U+00B2", "U+00B3",
    "U+00B5", "U+00B9", "U+00BA", "U+00BC", "U+00BD", "U+00BE", "U+00C0",
    "U+00C1", "U+00C2", "U+00C3", "U+00C4", "U+00C5", "U+00C6", "U+00C7",
    "U+00C8", "U+00C9", "U+00CA", "U+00CB", "U+00CC", "U+00CD", "U+00CE",
    "U+00CF", "U+00D0", "U+00D1", "U+00D2", "U+00D3", "U+00D4", "U+00D5",
    "U+00D6", "U+00D8", "U+00D9", "U+00DA", "U+00DB", "U+00DC", "U+00DD",
    "U+00DE", "U+00DF", "U+00E0", "U+00E1", "U+00E2", "U+00E3", "U+00E4",
    "U+00E5", "U+00E6", "U+00E7", "U+00E8", "U+00E9", "U+00EA", "U+00EB",
    "U+00EC", "U+00ED", "U+00EE", "U+00EF", "U+00F0", "U+00F1", "U+00F2",
    "U+00F3", "U+00F4", "U+00F5", "U+00F6", "U+00F8", "U+00F9", "U+00FA",
    "U+00FB", "U+00FC", "U+00FD", "U+00FE", "U+00FF", "U+4E2D" }

\* What '[\w-]' matches.
IsWordOrHyphen(c) == c \in WordCharacters \/ c = "-"

\* The literal w occurs in line at position k.
StartsAt(line, k, w) ==
  /\ k >= 1
  /\ k + Len(w) - 1 <= Len(line)
  /\ \A t \in 1..Len(w) : line[k + t - 1] = w[t]

\* The characters of the model that str.lower() changes: A to Z, U+00C0 to
\* U+00D6 and U+00D8 to U+00DE.
UpperCase ==
  << "A", "B", "C", "D", "E", "F", "G", "H", "I", "J", "K", "L", "M", "N",
     "O", "P", "Q", "R", "S", "T", "U", "V", "W", "X", "Y", "Z", "U+00C0",
     "U+00C1", "U+00C2", "U+00C3", "U+00C4", "U+00C5", "U+00C6", "U+00C7",
     "U+00C8", "U+00C9", "U+00CA", "U+00CB", "U+00CC", "U+00CD", "U+00CE",
     "U+00CF", "U+00D0", "U+00D1", "U+00D2", "U+00D3", "U+00D4", "U+00D5",
     "U+00D6", "U+00D8", "U+00D9", "U+00DA", "U+00DB", "U+00DC", "U+00DD",
     "U+00DE" >>

\* What str.lower() makes of them, in the same order.
LowerCase ==
  << "a", "b", "c", "d", "e", "f", "g", "h", "i", "j", "k", "l", "m", "n",
     "o", "p", "q", "r", "s", "t", "u", "v", "w", "x", "y", "z", "U+00E0",
     "U+00E1", "U+00E2", "U+00E3", "U+00E4", "U+00E5", "U+00E6", "U+00E7",
     "U+00E8", "U+00E9", "U+00EA", "U+00EB", "U+00EC", "U+00ED", "U+00EE",
     "U+00EF", "U+00F0", "U+00F1", "U+00F2", "U+00F3", "U+00F4", "U+00F5",
     "U+00F6", "U+00F8", "U+00F9", "U+00FA", "U+00FB", "U+00FC", "U+00FD",
     "U+00FE" >>

\* str.lower() of a text: each character of UpperCase has the character
\* that stands at its place in LowerCase, the others stay.
LowerText(s) ==
  LET Lower(c) ==
        IF \E k \in 1..Len(UpperCase) : UpperCase[k] = c
        THEN LowerCase[CHOOSE k \in 1..Len(UpperCase) : UpperCase[k] = c]
        ELSE c
  IN  [k \in 1..Len(s) |-> Lower(s[k])]

\* w.lower() in line.lower(): the substring test without regard to case.
ContainsIgnoringCase(line, w) ==
  \E k \in 1..Len(line) :
     /\ k + Len(w) - 1 <= Len(line)
     /\ LowerText(SubSeq(line, k, k + Len(w) - 1)) = LowerText(w)

\* 'w in line', for a non-empty w.
Contains(line, w) == \E k \in 1..Len(line) : StartsAt(line, k, w)

\* str.strip()
Strip(s) ==
  LET keep == {t \in 1..Len(s) : ~IsSpace(s[t])}
  IN  IF keep = {} THEN <<>> ELSE SubSeq(s, Minimum(keep), Maximum(keep))

\* a < b for two str: by the first differing code point, a proper prefix first.
StrLess(a, b) ==
  LET shorter == IF Len(a) <= Len(b) THEN Len(a) ELSE Len(b)
      differ == {t \in 1..shorter : a[t] # b[t]}
  IN  IF differ = {}
      THEN Len(a) < Len(b)
      ELSE Ord(a[Minimum(differ)]) < Ord(b[Minimum(differ)])

\* sorted(list(S)) with reverse=True: what a wrong sort direction would give.
RECURSIVE SortedDescending(_)
SortedDescending(S) ==
  IF S = {} THEN <<>>
  ELSE LET top == CHOOSE x \in S : \A y \in S : y = x \/ StrLess(y, x)
       IN  <<top>> \o SortedDescending(S \ {top})

\* sorted(list(S)) of a set of str: ascending, by repeatedly taking the least.
RECURSIVE Sorted(_)
Sorted(S) ==
  IF S = {} THEN <<>>
  ELSE LET least == CHOOSE x \in S : \A y \in S : y = x \/ StrLess(x, y)
       IN  <<least>> \o Sorted(S \ {least})

----------------------------------------------------------------------------
\* explicit_failure_pattern, the regular expression
\*   .*?(?:Could not find a match for:|Failed to download|Track found but download failed):\s*(.*?)(?::.*)?$
\* The backtracking matcher tries, in this order of preference: the leftmost
\* start, the shortest leading '.*?', the alternatives left to right, the
\* longest '\s*', the shortest group 1, and the optional group before its
\* omission.  Each operator below is the set of choices at one of these
\* points from which the rest of the pattern can still match.

\* The three alternatives of the non-capturing group, in order.
MarkerPhrases ==
  << <<"C","o","u","l","d"," ","n","o","t"," ","f","i","n","d"," ","a"," ","m","a","t","c","h"," ","f","o","r",":">>,
     <<"F","a","i","l","e","d"," ","t","o"," ","d","o","w","n","l","o","a","d">>,
     <<"T","r","a","c","k"," ","f","o","u","n","d"," ","b","u","t"," ","d","o","w","n","l","o","a","d"," ","f","a","i","l","e","d">> >>

\* '$' (no MULTILINE flag): at the end, or before a final newline.
AtEnd(line, e) ==
  \/ e = Len(line) + 1
  \/ e = Len(line) /\ line[e] = "\n"

\* '.*' or '.*?' can consume exactly the characters a..b-1.
DotRun(line, a, b) == \A t \in a..(b - 1) : line[t] # "\n"

\* '\s*' can consume exactly the characters a..b-1.
SpaceRun(line, a, b) == \A t \in a..(b - 1) : IsSpace(line[t])

\* '(?::.*)?$' matches from position r.
TailMatches(line, r) ==
  \/ /\ r <= Len(line)
     /\ line[r] = ":"
     /\ \E e \in (r + 1)..(Len(line) + 1) : AtEnd(line, e) /\ DotRun(line, r + 1, e)
  \/ AtEnd(line, r)

\* '(.*?)(?::.*)?$' from position q: where group 1 can end.
CaptureEnds(line, q) ==
  {r \in q..(Len(line) + 1) : TailMatches(line, r) /\ DotRun(line, q, r)}

\* '\s*(.*?)(?::.*)?$' from position p: where group 1 can start.
CaptureStarts(line, p) ==
  {q \in p..(Len(line) + 1) : SpaceRun(line, p, q) /\ CaptureEnds(line, q) # {}}

\* Each alternative with the ':' that follows the group.
MarkerColon == [m \in 1..Len(MarkerPhrases) |-> MarkerPhrases[m] \o <<":">>]

\* The alternatives m for which '(?:...):\s*(.*?)(?::.*)?$' matches from k.
MarkerAlternatives(line, k) ==
  {m \in 1..Len(MarkerPhrases) :
     /\ StartsAt(line, k, MarkerColon[m])
     /\ CaptureStarts(line, k + Len(MarkerColon[m])) # {}}

\* The positions from which the pattern without its leading '.*?' matches.
MarkerStarts(line) == {k \in 1..Len(line) : MarkerAlternatives(line, k) # {}}

\* A failed search (None); group1 is then unused.
NoMatch == [matched |-> FALSE, group1 |-> <<>>]

\* The pattern with a greedy group 1, '(.*)': the longest capture is taken.
explicit_failure_pattern_greedy(line) ==
  LET K == MarkerStarts(line)
      Reach(s) == {k \in K : k >= s /\ DotRun(line, s, k)}
      S == {s \in 1..(Len(line) + 1) : Reach(s) # {}}
  IN  IF S = {} THEN NoMatch
      ELSE LET s == Minimum(S)
               k == Minimum(Reach(s))
               m == Minimum(MarkerAlternatives(line, k))
               q == Maximum(CaptureStarts(line, k + Len(MarkerColon[m])))
               r == Maximum(CaptureEnds(line, q))
           IN  [matched |-> TRUE, group1 |-> SubSeq(line, q, r - 1)]

\* explicit_failure_pattern.search(line): whether it matched, and group(1).
explicit_failure_pattern(line) ==
  LET K == MarkerStarts(line)
      Reach(s) == {k \in K : k >= s /\ DotRun(line, s, k)}
      S == {s \in 1..(Len(line) + 1) : Reach(s) # {}}
  IN  IF S = {} THEN NoMatch
      ELSE LET s == Minimum(S)
               k == Minimum(Reach(s))
               m == Minimum(MarkerAlternatives(line, k))
               q == Maximum(CaptureStarts(line, k + Len(MarkerColon[m])))
               r == Minimum(CaptureEnds(line, q))
           IN  [matched |-> TRUE, group1 |-> SubSeq(line, q, r - 1)]

----------------------------------------------------------------------------
\* youtube_url_pattern, the regular expression
\*   https?://(?:www\.)?(?:music\.)?youtube\.com/watch\?v=[\w-]+

\* The order in which the matcher tries the three optional parts
\* ('s', 'www.', 'music.'): each present before absent.
OptionalOrder ==
  << <<TRUE, TRUE, TRUE>>, <<TRUE, TRUE, FALSE>>,
     <<TRUE, FALSE, TRUE>>, <<TRUE, FALSE, FALSE>>,
     <<FALSE, TRUE, TRUE>>, <<FALSE, TRUE, FALSE>>,
     <<FALSE, FALSE, TRUE>>, <<FALSE, FALSE, FALSE>> >>

\* The position after literal w at pos, or 0 when it is not there (0 = failed).
Literal(line, pos, w) ==
  IF pos # 0 /\ StartsAt(line, pos, w) THEN pos + Len(w) ELSE 0

\* The position after an optional literal, taken or skipped.
Optional(line, pos, w, take) ==
  IF take THEN Literal(line, pos, w) ELSE pos

\* The literal the pattern starts with.
UrlScheme == <<"h","t","t","p">>

\* The position after '...watch\?v=' for one choice of the optional parts.
UrlHead(line, p, choice) ==
  Literal(line,
          Optional(line,
                   Optional(line,
                            Literal(line,
                                    Optional(line, Literal(line, p, UrlScheme),
                                             <<"s">>, choice[1]),
                                    <<":","/","/">>),
                            <<"w","w","w",".">>, choice[2]),
                   <<"m","u","s","i","c",".">>, choice[3]),
          <<"y","o","u","t","u","b","e",".","c","o","m","/","w","a","t","c","h","?","v","=">>)

\* '[\w-]+' from pos: the positions where it can end.
WordRunEnds(line, pos) ==
  {e \in (pos + 1)..(Len(line) + 1) : \A t \in pos..(e - 1) : IsWordOrHyphen(line[t])}

\* The end of the match that starts at p, or 0 when none starts there.
UrlMatchEnd(line, p) ==
  LET ok == {c \in 1..Len(OptionalOrder) :
               /\ Literal(line, p, UrlScheme) # 0
               /\ UrlHead(line, p, OptionalOrder[c]) # 0
               /\ WordRunEnds(line, UrlHead(line, p, OptionalOrder[c])) # {}}
  IN  IF ok = {} THEN 0
      ELSE Maximum(WordRunEnds(line, UrlHead(line, p, OptionalOrder[Minimum(ok)])))

\* youtube_url_pattern.search(line): group(0) of the leftmost match, or <<>>
\* for None (a match is never empty).
youtube_url_pattern(line) ==
  LET P == {p \in 1..Len(line) : UrlMatchEnd(line, p) # 0}
  IN  IF P = {} THEN <<>>
      ELSE SubSeq(line, Minimum(P), UrlMatchEnd(line, Minimum(P)) - 1)

----------------------------------------------------------------------------
(* Inputs.                                                                 *)

\* Most lines of one captured output.
MaxLines == 5

\* Most fragments a composed line is made of.
MaxFrags == 4

\* Lines of a spotDL log: error lines with and without a URL, URL lines,
\* an explicit failure whose text carries two URLs, and noise.
LogLines ==
  { <<"E","R","R","O","R"," ","A","u","d","i","o","P","r","o","v","i","d","e","r","E","r","r","o","r",":"," ","s","o","m","e","t","h","i","n","g">>,
    <<"s","o","m","e"," ","n","o","i","s","e">>,
    <<"h","t","t","p","s",":","/","/","m","u","s","i","c",".","y","o","u","t","u","b","e",".","c","o","m","/","w","a","t","c","h","?","v","=","a","b","c","1","2","3","X","Y","Z","_","-">>,
    <<"A","u","d","i","o","P","r","o","v","i","d","e","r","E","r","r","o","r",":"," ","h","t","t","p",":","/","/","w","w","w",".","y","o","u","t","u","b","e",".","c","o","m","/","w","a","t","c","h","?","v","=","b">>,
    <<"F","a","i","l","e","d"," ","t","o"," ","d","o","w","n","l","o","a","d",":"," ","T"," ","-"," ","h","t","t","p","s",":","/","/","y","o","u","t","u","b","e",".","c","o","m","/","w","a","t","c","h","?","v","=","c","&","t","=","1"," ","h","t","t","p",":","/","/","y","o","u","t","u","b","e",".","c","o","m","/","w","a","t","c","h","?","v","=","d">> }

\* The pieces composed lines are concatenated from.
Fragments ==
  { <<"C","o","u","l","d"," ","n","o","t"," ","f","i","n","d"," ","a"," ","m","a","t","c","h"," ","f","o","r",":">>,
    <<"F","a","i","l","e","d"," ","t","o"," ","d","o","w","n","l","o","a","d">>,
    <<"T","r","a","c","k"," ","f","o","u","n","d"," ","b","u","t"," ","d","o","w","n","l","o","a","d"," ","f","a","i","l","e","d">>,
    <<"A","u","d","i","o","P","r","o","v","i","d","e","r","E","r","r","o","r",":">>,
    <<":">>,
    <<" ">>,
    <<"T">> }

\* Whole lines tried beside the composed ones: the examples the specification
\* quotes, a title with a colon, a line with two markers, and an explicit
\* failure with an empty capture in front of an audio-provider error.
ExampleLines ==
  { <<"C","o","u","l","d"," ","n","o","t"," ","f","i","n","d"," ","a"," ","m","a","t","c","h"," ","f","o","r",":"," ","S","o","n","g"," ","T","i","t","l","e"," ","-"," ","A","r","t","i","s","t"," ","N","a","m","e",":"," ","r","e","a","s","o","n"," ","t","e","x","t">>,
    <<"F","a","i","l","e","d"," ","t","o"," ","d","o","w","n","l","o","a","d",":"," ","A","n","o","t","h","e","r"," ","S","o","n","g">>,
    <<"F","a","i","l","e","d"," ","t","o"," ","d","o","w","n","l","o","a","d",":"," ","S","o","n","g",":"," ","R","e","m","i","x"," ","V","e","r","s","i","o","n">>,
    <<"F","a","i","l","e","d"," ","t","o"," ","d","o","w","n","l","o","a","d",":"," ","x",":"," ","F","a","i","l","e","d"," ","t","o"," ","d","o","w","n","l","o","a","d",":"," ","T">>,
    <<"F","a","i","l","e","d"," ","t","o"," ","d","o","w","n","l","o","a","d",":",":","A","u","d","i","o","P","r","o","v","i","d","e","r","E","r","r","o","r",":"," ","x">> }

\* Lines that hold a marker in another capitalisation than the patterns',
\* and two that hold it as the patterns spell it.
CaseLines ==
  { <<"f","a","i","l","e","d"," ","t","o"," ","d","o","w","n","l","o","a","d",":"," ","X">>,
    <<"F","A","I","L","E","D"," ","T","O"," ","D","O","W","N","L","O","A","D",":"," ","X">>,
    <<"c","o","u","l","d"," ","n","o","t"," ","f","i","n","d"," ","a"," ","m","a","t","c","h"," ","f","o","r",":",":"," ","X">>,
    <<"T","r","a","c","k"," ","F","o","u","n","d"," ","B","u","t"," ","D","o","w","n","l","o","a","d"," ","F","a","i","l","e","d",":"," ","X">>,
    <<"a","u","d","i","o","p","r","o","v","i","d","e","r","e","r","r","o","r",":"," ","x">>,
    <<"E","R","R","O","R"," ","A","u","d","i","o","P","r","o","v","i","d","e","r","e","r","r","o","r",":"," ","x">>,
    <<"F","a","i","l","e","d"," ","t","o"," ","d","o","w","n","l","o","a","d",":"," ","X">>,
    <<"A","u","d","i","o","P","r","o","v","i","d","e","r","E","r","r","o","r",":"," ","x">> }

\* Most lines of an input of such lines.
MaxCaseLines == 2

CaseInputs == UNION {[1..n -> CaseLines] : n \in 0..MaxCaseLines}

\* Most lines of an input whose lines are swapped.
MaxSwapLines == 3

\* Lines that produce the same record in pairs: two error lines without a URL,
\* a URL line, an error line with that URL, and three explicit failures of
\* the same title, one of them carrying a URL.
SwapLines ==
  { <<"A","u","d","i","o","P","r","o","v","i","d","e","r","E","r","r","o","r",":"," ","x">>,
    <<"E","R","R","O","R"," ","A","u","d","i","o","P","r","o","v","i","d","e","r","E","r","r","o","r",":"," ","y">>,
    <<"h","t","t","p",":","/","/","y","o","u","t","u","b","e",".","c","o","m","/","w","a","t","c","h","?","v","=","a">>,
    <<"A","u","d","i","o","P","r","o","v","i","d","e","r","E","r","r","o","r",":"," ","h","t","t","p",":","/","/","y","o","u","t","u","b","e",".","c","o","m","/","w","a","t","c","h","?","v","=","a">>,
    <<"F","a","i","l","e","d"," ","t","o"," ","d","o","w","n","l","o","a","d",":"," ","T">>,
    <<"F","a","i","l","e","d"," ","t","o"," ","d","o","w","n","l","o","a","d",":","T">>,
    <<"T","r","a","c","k"," ","f","o","u","n","d"," ","b","u","t"," ","d","o","w","n","l","o","a","d"," ","f","a","i","l","e","d",":"," ","T",":"," ","h","t","t","p",":","/","/","y","o","u","t","u","b","e",".","c","o","m","/","w","a","t","c","h","?","v","=","b">> }

RECURSIVE Concat(_)
Concat(parts) == IF parts = <<>> THEN <<>> ELSE Head(parts) \o Concat(Tail(parts))

ComposedLines ==
  UNION {{Concat(f) : f \in [1..n -> Fragments]} : n \in 0..MaxFrags}

LogInputs == UNION {[1..n -> LogLines] : n \in 0..MaxLines}

SwapInputs == UNION {[1..n -> SwapLines] : n \in 0..MaxSwapLines}

\* What a process writes to its merged stdout/stderr before it ends:
\* nothing, an explicit failure, or a blank line and an audio provider
\* error between spaces.
RawOutputs ==
  { <<>>,
    << <<"F","a","i","l","e","d"," ","t","o"," ","d","o","w","n","l","o","a","d",":"," ","T">> \o <<"\n">> >>,
    << <<"\n">>, <<" ", " ">> \o <<"A","u","d","i","o","P","r","o","v","i","d","e","r","E","r","r","o","r",":"," ","x">> \o <<" ", "\n">> >> }

----------------------------------------------------------------------------
(* The lines of the inputs are immutable, so what the two patterns find in *)
(* each of them is computed once and looked up afterwards.                 *)

KnownLines ==
  LogLines \cup ComposedLines \cup ExampleLines \cup SwapLines
    \cup UNION {{Strip(out[k]) : k \in 1..Len(out)} : out \in RawOutputs} \cup CaseLines

ExplicitTable == [l \in KnownLines |-> explicit_failure_pattern(l)]

UrlTable == [l \in KnownLines |-> youtube_url_pattern(l)]

\* explicit_match = explicit_failure_pattern.search(line)
explicit_match(line) ==
  IF line \in KnownLines THEN ExplicitTable[line] ELSE explicit_failure_pattern(line)

\* url_match = youtube_url_pattern.search(output_lines[j]), as group(0) or <<>>
url_match(line) ==
  IF line \in KnownLines THEN UrlTable[line] ELSE youtube_url_pattern(line)

----------------------------------------------------------------------------
(* The scan loop of parse_failed_downloads.                                *)

\* min(a, b)
Min(a, b) == IF a <= b THEN a ELSE b

\* range(i, i + 4): the lookahead without the clip at the end of the list.
UnclippedRange(at, n) == at..(at + 3)

\* range(i, min(i + 5, len(output_lines))): a window one line too long.
WiderRange(at, n) == at..(Min(at + 5, n) - 1)

\* range(i, min(i + 4, len(output_lines))), as 0-based indices.
LookaheadRange(at, n) == at..(Min(at + 4, n) - 1)

\* The for loop without its break: the last URL line of the window wins.
LookaheadLastHit(lines, at) ==
  LET R == at..(Min(at + 4, Len(lines)) - 1)
      hits == {j \in R : url_match(lines[j + 1]) # <<>>}
  IN  IF hits # {}
      THEN [raised |-> FALSE, yt_url |-> url_match(lines[Maximum(hits) + 1])]
      ELSE [raised |-> FALSE, yt_url |-> <<>>]

\* The for loop over the lookahead: yt_url (<<>> for None), or raised when
\* output_lines[j] is indexed outside the list before a URL is found.
Lookahead(lines, at) ==
  LET found(outside, hits) ==
        IF hits # {} /\ \A j \in outside : Minimum(hits) < j
        THEN [raised |-> FALSE, yt_url |-> url_match(lines[Minimum(hits) + 1])]
        ELSE [raised |-> outside # {}, yt_url |-> <<>>]
      window(R) ==
        found({j \in R : j >= Len(lines)},
              {j \in R : j < Len(lines) /\ url_match(lines[j + 1]) # <<>>})
  IN  window(LookaheadRange(at, Len(lines)))

\* f"Download failed for YouTube URL: {yt_url} (AudioProviderError)"
UrlRecord(yt_url) ==
  <<"D","o","w","n","l","o","a","d"," ","f","a","i","l","e","d"," ","f","o","r"," ","Y","o","u","T","u","b","e"," ","U","R","L",":"," ">> \o yt_url \o <<" ","(","A","u","d","i","o","P","r","o","v","i","d","e","r","E","r","r","o","r",")">>

\* f"Download failed due to AudioProviderError (details in log: '{line}')"
FallbackRecord(line) ==
  <<"D","o","w","n","l","o","a","d"," ","f","a","i","l","e","d"," ","d","u","e"," ","t","o"," ","A","u","d","i","o","P","r","o","v","i","d","e","r","E","r","r","o","r"," ","(","d","e","t","a","i","l","s"," ","i","n"," ","l","o","g",":"," ","'">> \o line \o <<"'",")">>

\* The literal of the 'in' test.
AudioProviderErrorMarker == <<"A","u","d","i","o","P","r","o","v","i","d","e","r","E","r","r","o","r",":">>

\* The explicit-match branch without the strip() of group(1).
ExplicitBranchNoStrip(songs, line) ==
  LET song_info == explicit_match(line).group1
  IN  IF song_info # <<>> THEN songs \cup {song_info} ELSE songs

\* failed_songs after the explicit-match branch on a line.
ExplicitBranch(songs, line) ==
  LET add(song_info) == IF song_info # <<>> THEN songs \cup {song_info} ELSE songs
  IN  add(Strip(explicit_match(line).group1))

\* The audio-provider branch with 'line' overwritten by the for loop: the
\* fallback quotes the last line of the window instead of line i.
AudioProviderBranchQuotesLookahead(songs, lines, at) ==
  LET yt_url == Lookahead(lines, at).yt_url
  IN  IF yt_url # <<>>
      THEN songs \cup {UrlRecord(yt_url)}
      ELSE songs \cup {FallbackRecord(lines[Min(at + 4, Len(lines))])}

\* failed_songs after the audio-provider-error branch on line i (not raised).
AudioProviderBranch(songs, lines, at) ==
  LET add(yt_url) ==
        IF yt_url # <<>>
        THEN songs \cup {UrlRecord(yt_url)}
        ELSE songs \cup {FallbackRecord(lines[at + 1])}
  IN  add(Lookahead(lines, at).yt_url)

\* One iteration of the while loop as a function of (lines, i, failed_songs).
ScanLine(songs, lines, at) ==
  LET line == lines[at + 1]
  IN  IF explicit_match(line).matched THEN ExplicitBranch(songs, line)
      ELSE IF Contains(line, AudioProviderErrorMarker)
           THEN AudioProviderBranch(songs, lines, at)
           ELSE songs

\* The while loop from cursor 'at' on.
RECURSIVE ScanFrom(_, _, _)
ScanFrom(songs, lines, at) ==
  IF at < Len(lines) THEN ScanFrom(ScanLine(songs, lines, at), lines, at + 1) ELSE songs

\* parse_failed_downloads as a function of its argument.
parse_failed_downloads(lines) == Sorted(ScanFrom({}, lines, 0))

----------------------------------------------------------------------------
(* The copy of the classifier in the GUI, SpotDLGUI._parse_failed_downloads *)
(* of src/spotdl_gui/app.py.  Its two patterns (lines 362-365) are,         *)
(* character for character, those of the terminal script, so explicit_match *)
(* and url_match stand for their search(); its loop is written out here     *)
(* from its own source.                                                     *)

\* A lookahead that ends one line early: min(i + 3, len(output_lines)).
GuiWindowEndShort(at, n) == Min(at + 3, n)

\* min(i + 4, len(output_lines)), the end of range() in the GUI copy.
GuiWindowEnd(at, n) == Min(at + 4, n)

\* for j in range(j, stop): the URL of the first line that has one, or <<>>
\* when the loop ends with yt_url = None.
RECURSIVE GuiLookahead(_, _, _)
GuiLookahead(lines, j, stop) ==
  IF j >= stop THEN <<>>
  ELSE IF url_match(lines[j + 1]) # <<>> THEN url_match(lines[j + 1])
  ELSE GuiLookahead(lines, j + 1, stop)

\* while i < len(output_lines): ... of the GUI copy, from cursor 'at' on.
RECURSIVE GuiScan(_, _, _)
GuiScan(songs, lines, at) ==
  IF at >= Len(lines) THEN songs
  ELSE LET explicit(line, song_info) ==
             IF song_info # <<>> THEN songs \cup {song_info} ELSE songs
           audio_provider(line, yt_url) ==
             songs \cup {IF yt_url # <<>>
                         THEN <<"D","o","w","n","l","o","a","d"," ","f","a","i","l","e","d"," ","f","o","r"," ","Y","o","u","T","u","b","e"," ","U","R","L",":"," ">> \o yt_url
                                \o <<" ","(","A","u","d","i","o","P","r","o","v","i","d","e","r","E","r","r","o","r",")">>
                         ELSE <<"D","o","w","n","l","o","a","d"," ","f","a","i","l","e","d"," ","d","u","e"," ","t","o"," ","A","u","d","i","o","P","r","o","v","i","d","e","r","E","r","r","o","r"," ","(","d","e","t","a","i","l","s"," ","i","n"," ","l","o","g",":"," ","'">>
                                \o line \o <<"'",")">>}
           scan(line, found) ==
             IF found.matched
             THEN GuiScan(explicit(line, Strip(found.group1)), lines, at + 1)
             ELSE IF Contains(line, <<"A","u","d","i","o","P","r","o","v","i","d","e","r","E","r","r","o","r",":">>)
             THEN GuiScan(audio_provider(line, GuiLookahead(lines, at,
                                                            GuiWindowEnd(at, Len(lines)))),
                          lines, at + 1)
             ELSE GuiScan(songs, lines, at + 1)
       IN  scan(lines[at + 1], explicit_match(lines[at + 1]))

\* SpotDLGUI._parse_failed_downloads as a function of its argument.
_parse_failed_downloads(lines) == Sorted(GuiScan({}, lines, 0))

----------------------------------------------------------------------------
(* The two front-ends around the classifier: the terminal script runs a    *)
(* command with run_command and summarises it in download_songs and        *)
(* sync_playlist; the GUI does both in the worker thread 'target' of       *)
(* _run_spotdl_command.                                                    *)

\* How many worker threads the GUI can have started and not yet ended; the
\* terminal script uses the first run only.
MaxWorkers == 2

\* How many operations the user asks for in a session.
MaxOperations == 2

Workers == 1..MaxWorkers

\* download_button, save_meta_button, sync_button, get_urls_button
Buttons == {"download_button", "save_meta_button", "sync_button", "get_urls_button"}

\* The operation_name each GUI action method passes to _run_spotdl_command.
GuiOperations == {"Download", "Save Metadata", "Sync", "Get Direct URLs"}

\* download_songs, save_metadata, sync_playlist and get_direct_urls of the
\* terminal script (choices 1 to 4 of main_menu), under the names the GUI
\* gives the same operations.
TerminalOperations == {"Download", "Save Metadata", "Sync", "Get Direct URLs"}

\* The operations followed by a summary of failed downloads:
\* operation_name in ["Download", "Sync"]; download_songs and sync_playlist.
Summarized == {"Download", "Sync"}

\* The button whose command starts the operation.
ButtonOf(op) ==
  CASE op = "Download" -> "download_button"
    [] op = "Save Metadata" -> "save_meta_button"
    [] op = "Sync" -> "sync_button"
    [] op = "Get Direct URLs" -> "get_urls_button"

\* The exit statuses of a process.
ExitCodes == {0, 1}

\* A run that has not started: no process, nothing collected, no
\* return_code (<<>> stands for the unbound name), no exception.
IdleRun ==
  [ pc |-> "idle", operation_name |-> "", emitted |-> <<>>, exit |-> 0,
    proc |-> "none", nread |-> 0, collected_lines |-> <<>>,
    return_code |-> <<>>, raised |-> "none", parsed |-> <<>>, reports |-> <<>> ]

\* What the user can have typed into the URL field of the GUI, or at the
\* URL prompt of the terminal script before the Enter that ends the answer.
UrlTexts == {<<>>, <<" ", "\n">>, <<" ", "u", "\n", "v">>, <<"a",".","s","p","o","t","d","l">>, <<"u"," ","A","l","b","u","m">>}

\* What the user can have typed as the save file.
SaveFileTexts == {<<>>, <<" ">>, <<"f"," ">>}

\* The fields of s from position k on, cut at the maximal runs of the
\* characters of seps; field is the part of the current field already read.
\* An empty field stands before a leading run and after a trailing one.
RECURSIVE SplitRuns(_, _, _, _)
SplitRuns(s, seps, k, field) ==
  IF k > Len(s) THEN <<field>>
  ELSE IF s[k] \in seps
       THEN IF k > 1 /\ s[k - 1] \in seps
            THEN SplitRuns(s, seps, k + 1, field)
            ELSE <<field>> \o SplitRuns(s, seps, k + 1, <<>>)
       ELSE SplitRuns(s, seps, k + 1, Append(field, s[k]))

\* str.split(): the non-empty fields between runs of whitespace.
str_split(s) ==
  LET spaces == {s[k] : k \in {t \in 1..Len(s) : IsSpace(s[t])}}
  IN  SelectSeq(SplitRuns(s, spaces, 1, <<>>), LAMBDA f : f # <<>>)

\* re.split(r'[ \n]+', text)
re_split(text) == SplitRuns(text, {" ", "\n"}, 1, <<>>)

\* [url.strip() for url in fields if url.strip()]
StripEach(fields) ==
  SelectSeq([k \in 1..Len(fields) |-> Strip(fields[k])], LAMBDA f : f # <<>>)

\* The list urls of download_songs, save_metadata and get_direct_urls,
\* input() having returned typed: the answer stripped by get_user_input,
\* split at whitespace.
urls_of(typed) == StripEach(str_split(Strip(typed)))

\* _get_urls_from_input() that keeps the blank fields.
UrlsFromInputKeepingBlank(urls_text) ==
  IF urls_text = <<>> THEN <<>> ELSE re_split(urls_text)

\* _get_urls_from_input(): [] for an empty field, else the stripped
\* non-blank fields.
_get_urls_from_input(urls_text) ==
  IF urls_text = <<>> THEN <<>> ELSE StripEach(re_split(urls_text))

\* s.endswith(suffix)
EndsWith(s, suffix) ==
  /\ Len(s) >= Len(suffix)
  /\ SubSeq(s, Len(s) - Len(suffix) + 1, Len(s)) = suffix

\* No operation has been asked for yet, or the process of the one asked
\* for has been started.
NoRequest ==
  [ operation_name |-> "", urls_text |-> <<>>, save_file |-> <<>>,
    command_parts |-> <<>>, outcome |-> "none" ]

\* No call of log_message by the worker thread is under way and none is
\* about to be made.
NoLogCall == [ pc |-> "idle", pending |-> <<>> ]

\* No call of _clear_log is under way.
NoClearCall == [ pc |-> "idle", cleared |-> 0 ]

\* The GUI shows an empty console and nothing has been asked for.  The
\* Text widget of the output console is created with state=tk.DISABLED,
\* empty; each entry of lines is one message with its newline.
NoDisplay ==
  /\ request = NoRequest
  /\ console = [ state |-> "disabled", lines |-> <<>> ]
  /\ log_call = NoLogCall
  /\ clear_call = NoClearCall

\* How many times Clear Log is pressed.
MaxClears == 2

\* A message of the GUI: the text of its f-string, with the operation_name
\* it names; the values of its other fields are not followed.
Message(text, operation_name) ==
  [ text |-> text, operation_name |-> operation_name ]

\* output_console.config(state=...)
config(con, state) == [con EXCEPT !.state = state]

\* output_console.delete(1.0, tk.END); a Text widget in the disabled state
\* ignores it.
delete(con) == IF con.state = "normal" THEN [con EXCEPT !.lines = <<>>] ELSE con

\* output_console.insert(tk.END, message + "\n"); a Text widget in the
\* disabled state ignores it.
insert(con, message) ==
  IF con.state = "normal" THEN [con EXCEPT !.lines = Append(@, message)] ELSE con

\* log_message that never clears the console.
log_message_appending(con, message, clear_first) ==
  config(insert(config(con, "normal"), message), "disabled")

\* log_message(message, clear_first) run as a whole, by the thread of the
\* main loop.
log_message(con, message, clear_first) ==
  LET writable == config(con, "normal")
      cleared == IF clear_first THEN delete(writable) ELSE writable
  IN  config(insert(cleared, message), "disabled")

\* log_message called for each message of msgs in turn.
RECURSIVE LogAll(_, _)
LogAll(con, msgs) ==
  IF msgs = <<>> THEN con
  ELSE LogAll(log_message(con, Head(msgs), FALSE), Tail(msgs))

\* The worker thread of the GUI is about to call log_message for each of
\* msgs, one widget call at a time; the terminal script prints.
WorkerLogs(msgs) ==
  IF frontend = "gui" THEN [log_call EXCEPT !.pending = msgs] ELSE log_call

\* The worker thread is not inside log_message and has none to call before
\* its next statement.
WorkerFree == log_call.pc = "idle" /\ log_call.pending = <<>>

\* f"--- Starting {operation_name} ---"
StartingMessage(op) == Message("--- Starting {operation_name} ---", op)

\* f"Executing: spotdl {' '.join(...)}"
ExecutingMessage(command_parts) ==
  Message("Executing: spotdl {' '.join(command_parts[1:])}", "")

\* The directories the terminal script can be started in.
WorkingDirectories == {<<"/","w">>}

\* The home directory of the user who runs it.
HomeDirectory == <<"/","h">>

\* Path(path).suffix == ".spotdl" for a resolved path: its last component
\* ends with '.spotdl' and has a character before it.
HasSpotdlSuffix(path) ==
  /\ EndsWith(path, <<".","s","p","o","t","d","l">>)
  /\ Len(path) > Len(<<".","s","p","o","t","d","l">>)
  /\ path[Len(path) - Len(<<".","s","p","o","t","d","l">>)] # "/"

\* str(Path(path).expanduser().resolve()) for a user whose home directory
\* is home, in the current directory cwd, no component being a symbolic
\* link.  expanduser(): a relative path whose first component, the '.'
\* ones left out as Path() leaves them out, is '~' has the home directory
\* in its place.  (A first component '~name' is looked up in the password
\* database and raises RuntimeError for an unknown name; no text of the
\* model starts that way.)  resolve(): a relative path is taken under cwd,
\* repeated and trailing slashes and '.' go, '..' takes back the component
\* before it (none at the root), and the empty path is cwd.
resolve(cwd, home, path) ==
  LET Components(p) == SelectSeq(SplitRuns(p, {"/"}, 1, <<>>), LAMBDA f : f # <<>>)
      RECURSIVE Joined(_)
      Joined(components) ==
        IF components = <<>> THEN <<>>
        ELSE IF Len(components) = 1 THEN components[1]
        ELSE components[1] \o <<"/">> \o Joined(Tail(components))
      RECURSIVE Normalized(_, _)
      Normalized(components, done) ==
        IF components = <<>> THEN done
        ELSE LET c == Head(components)
             IN  Normalized(Tail(components),
                            IF c = <<".">> THEN done
                            ELSE IF c = <<".", ".">>
                                 THEN SubSeq(done, 1, Len(done) - 1)
                                 ELSE Append(done, c))
      parts == SelectSeq(Components(path), LAMBDA c : c # <<".">>)
      expanded == IF parts # <<>> /\ path[1] # "/" /\ parts[1] = <<"~">>
                  THEN home \o <<"/">> \o Joined(Tail(parts))
                  ELSE path
      absolute == expanded # <<>> /\ expanded[1] = "/"
      kept == Normalized(IF absolute THEN Components(expanded)
                         ELSE Components(cwd) \o Components(expanded), <<>>)
  IN  <<"/">> \o Joined(kept)

\* str(n) for an int n: its decimal digits, '-' before them when n < 0.
RECURSIVE str(_)
str(n) ==
  LET digits == <<"0", "1", "2", "3", "4", "5", "6", "7", "8", "9">>
  IN  IF n < 0 THEN <<"-">> \o str(0 - n)
      ELSE IF n < 10 THEN <<digits[n + 1]>>
      ELSE str(n \div 10) \o <<digits[(n % 10) + 1]>>

\* int(text) for a str: <<n>> for the number n it denotes, <<>> where
\* int() raises ValueError.  The text is stripped; a sign may come first;
\* then decimal digits, single underscores allowed between two digits.
\* Of the characters str.strip() takes off, int() does not take off the
\* separators U+001C to U+001F.
int(text) ==
  LET digits == <<"0", "1", "2", "3", "4", "5", "6", "7", "8", "9">>
      IsDigit(c) == \E d \in 1..10 : digits[d] = c
      number(body, sign) ==
        LET RECURSIVE value(_, _)
            value(k, n) ==
              IF k > Len(body) THEN n
              ELSE IF body[k] = "_" THEN value(k + 1, n)
              ELSE value(k + 1, 10 * n + (CHOOSE d \in 0..9 : digits[d + 1] = body[k]))
            wellformed ==
              /\ body # <<>>
              /\ \A k \in 1..Len(text) :
                    text[k] \notin {"U+001C", "U+001D", "U+001E", "U+001F"}
              /\ \A k \in 1..Len(body) :
                   \/ IsDigit(body[k])
                   \/ /\ body[k] = "_"
                      /\ 1 < k
                      /\ k < Len(body)
                      /\ IsDigit(body[k - 1])
                      /\ IsDigit(body[k + 1])
        IN  IF wellformed THEN <<sign * value(1, 0)>> ELSE <<>>
      signed(t) ==
        IF t # <<>> /\ t[1] = "-" THEN number(Tail(t), 0 - 1)
        ELSE IF t # <<>> /\ t[1] = "+" THEN number(Tail(t), 1)
        ELSE number(t, 1)
  IN  signed(Strip(text))

\* shlex.split(s): the arguments of s as a POSIX shell splits them, or
\* raised where it raises ValueError ('No closing quotation', 'No escaped
\* character').  The reader is in state " " between arguments, "a" inside
\* one, "'" or "\"" inside a quotation and "\\" after a backslash, from
\* which it goes back to escapedstate; token is the argument read so far
\* and quoted tells that a quotation has been opened in it, which keeps an
\* empty argument.
shlex_split(s) ==
  LET whitespace == {" ", "\t", "\r", "\n"}
      quotes == {"'", "\""}
      RECURSIVE read_token(_, _, _, _, _, _)
      read_token(k, state, escapedstate, token, quoted, tokens) ==
        IF k > Len(s)
        THEN IF state \in quotes \/ state = "\\"
             THEN [raised |-> TRUE, args |-> <<>>]
             ELSE [raised |-> FALSE,
                   args |-> IF state = "a" /\ (token # <<>> \/ quoted)
                            THEN Append(tokens, token) ELSE tokens]
        ELSE LET nextchar == s[k]
             IN  CASE state = " " ->
                        IF nextchar \in whitespace
                        THEN read_token(k + 1, " ", escapedstate, <<>>, FALSE, tokens)
                        ELSE IF nextchar = "\\"
                        THEN read_token(k + 1, "\\", "a", <<>>, FALSE, tokens)
                        ELSE IF nextchar \in quotes
                        THEN read_token(k + 1, nextchar, escapedstate, <<>>, TRUE, tokens)
                        ELSE read_token(k + 1, "a", escapedstate, <<nextchar>>, FALSE, tokens)
                   [] state = "a" ->
                        IF nextchar \in whitespace
                        THEN read_token(k + 1, " ", escapedstate, <<>>, FALSE,
                                        IF token # <<>> \/ quoted
                                        THEN Append(tokens, token) ELSE tokens)
                        ELSE IF nextchar \in quotes
                        THEN read_token(k + 1, nextchar, escapedstate, token, TRUE, tokens)
                        ELSE IF nextchar = "\\"
                        THEN read_token(k + 1, "\\", "a", token, quoted, tokens)
                        ELSE read_token(k + 1, "a", escapedstate, Append(token, nextchar),
                                        quoted, tokens)
                   [] state \in quotes ->
                        IF nextchar = state
                        THEN read_token(k + 1, "a", escapedstate, token, TRUE, tokens)
                        ELSE IF nextchar = "\\" /\ state = "\""
                        THEN read_token(k + 1, "\\", state, token, TRUE, tokens)
                        ELSE read_token(k + 1, state, escapedstate, Append(token, nextchar),
                                        TRUE, tokens)
                   [] OTHER ->
                        read_token(k + 1, escapedstate, escapedstate,
                                   IF escapedstate \in quotes /\ nextchar # "\\"
                                      /\ nextchar # escapedstate
                                   THEN token \o <<"\\", nextchar>>
                                   ELSE Append(token, nextchar),
                                   quoted, tokens)
  IN  read_token(1, " ", " ", <<>>, FALSE, <<>>)

\* What the file system can answer _validate_and_create_dir and
\* validate_and_create_dir for a path: an existing directory; a path that
\* does not exist and is created; one that does not exist and that mkdir
\* fails to create; an existing path that is not a directory; a path that
\* resolve() or exists() fails on.
OutputDirectories ==
  {"directory", "created", "mkdir fails", "not a directory", "fails"}

\* What the file system answers for path when it answers directory for
\* the paths it is free about: the current directory cwd and the
\* directories above it are existing directories.
DirectoryAt(path, directory, cwd) ==
  IF path = cwd \/ path = <<"/">> \/ StartsAt(cwd, 1, path \o <<"/">>)
  THEN "directory" ELSE directory

\* What the fields of the form besides the URL and the save file can hold
\* when a button is pressed, the application running in cwd: the values it
\* starts with (__init__, DEFAULT_OUTPUT_DIR under cwd), and values the
\* user has set.  directory is what the file system answers for
\* output_dir; threads is <<n>> for the number n in the field and <<>> for
\* a text that is no number, on which IntVar.get() raises TclError.
Forms(cwd) ==
  { [ output_dir |-> cwd \o <<"/","s","p","o","t","d","l","_","d","o","w","n","l","o","a","d","s">>, directory |-> "directory",
      audio_format |-> <<"m","p","3">>, custom_audio_format |-> <<>>,
      bitrate |-> <<"0"," ","(","b","e","s","t",")">>, custom_bitrate |-> <<>>,
      embed_lyrics |-> TRUE, embed_metadata |-> TRUE, sponsor_block |-> FALSE,
      overwrite |-> <<"s","k","i","p">>, threads |-> <<4>>,
      archive_file |-> <<>>, search_query |-> <<>>, advanced_args |-> <<>> ],
    [ output_dir |-> <<"~","/","d">>, directory |-> "created",
      audio_format |-> <<"c","u","s","t","o","m">>, custom_audio_format |-> <<" ","F","L","A","C">>,
      bitrate |-> <<"c","u","s","t","o","m">>, custom_bitrate |-> <<"1","9","2","K"," ">>,
      embed_lyrics |-> FALSE, embed_metadata |-> FALSE, sponsor_block |-> TRUE,
      overwrite |-> <<"f","o","r","c","e">>, threads |-> <<0>>,
      archive_file |-> <<" ","a",".","t","x","t">>, search_query |-> <<"q"," ">>,
      advanced_args |-> <<" ","-","-","x"," ","'","y"," ","z","'"," ">> ],
    [ output_dir |-> <<>>, directory |-> "directory",
      audio_format |-> <<"c","u","s","t","o","m">>, custom_audio_format |-> <<>>,
      bitrate |-> <<"c","u","s","t","o","m">>, custom_bitrate |-> <<" ">>,
      embed_lyrics |-> TRUE, embed_metadata |-> TRUE, sponsor_block |-> FALSE,
      overwrite |-> <<"m","e","t","a","d","a","t","a">>, threads |-> <<12>>,
      archive_file |-> <<" ">>, search_query |-> <<>>, advanced_args |-> <<"\"", "y">> ],
    [ output_dir |-> <<"d">>, directory |-> "mkdir fails",
      audio_format |-> <<"m","4","a">>, custom_audio_format |-> <<"x">>,
      bitrate |-> <<"3","2","0","k">>, custom_bitrate |-> <<>>,
      embed_lyrics |-> TRUE, embed_metadata |-> TRUE, sponsor_block |-> FALSE,
      overwrite |-> <<"s","k","i","p">>, threads |-> <<>>,
      archive_file |-> <<>>, search_query |-> <<>>, advanced_args |-> <<>> ],
    [ output_dir |-> <<"d">>, directory |-> "not a directory",
      audio_format |-> <<"f","l","a","c">>, custom_audio_format |-> <<>>,
      bitrate |-> <<"a","u","t","o">>, custom_bitrate |-> <<"x">>,
      embed_lyrics |-> TRUE, embed_metadata |-> FALSE, sponsor_block |-> FALSE,
      overwrite |-> <<"s","k","i","p">>, threads |-> <<0 - 1>>,
      archive_file |-> <<>>, search_query |-> <<>>, advanced_args |-> <<"a","\\"," ">> ],
    [ output_dir |-> <<".",".","/","d","/">>, directory |-> "fails",
      audio_format |-> <<"m","p","3">>, custom_audio_format |-> <<>>,
      bitrate |-> <<"0"," ","(","b","e","s","t",")">>, custom_bitrate |-> <<>>,
      embed_lyrics |-> TRUE, embed_metadata |-> TRUE, sponsor_block |-> FALSE,
      overwrite |-> <<"s","k","i","p">>, threads |-> <<4>>,
      archive_file |-> <<>>, search_query |-> <<>>, advanced_args |-> <<"-","v">> ] }

\* _validate_and_create_dir(path_str), the application running in cwd and
\* the file system answering directory: the messages it logs, and path,
\* <<p>> for the Path p it returns and <<>> for None.
_validate_and_create_dir(path_str, directory, cwd) ==
  LET creating == Message("Output directory '{path}' does not exist. Creating it...", "")
      failed == Message("Error creating/validating directory '{path_str}': {e}", "")
      validated(path, found) ==
        CASE path_str = <<>> ->
               [ notes |-> << Message("Error: Output directory is empty.", "") >>,
                 path |-> <<>> ]
          [] found = "directory" -> [ notes |-> <<>>, path |-> <<path>> ]
          [] found = "created" -> [ notes |-> << creating >>, path |-> <<path>> ]
          [] found = "mkdir fails" -> [ notes |-> << creating, failed >>, path |-> <<>> ]
          [] found = "not a directory" ->
               [ notes |-> << Message("Error: '{path}' exists but is not a directory.", "") >>,
                 path |-> <<>> ]
          [] OTHER -> [ notes |-> << failed >>, path |-> <<>> ]
  IN  validated(resolve(cwd, HomeDirectory, path_str),
                DirectoryAt(resolve(cwd, HomeDirectory, path_str), directory, cwd))

\* _build_common_download_options() on the fields form: the messages it
\* logs, the options it returns, and raised when it is left by the
\* TclError of self.threads_var.get(), the last field it reads.
_build_common_download_options(form, cwd) ==
  LET built(validated_output_path, custom_format, custom_bitrate) ==
        [ notes |->
            validated_output_path.notes \o
            (IF validated_output_path.path # <<>> THEN <<>>
             ELSE << Message("Warning: Output directory is invalid. spotDL might use current directory or fail.", "") >>) \o
            (IF form.audio_format = <<"c","u","s","t","o","m">> /\ custom_format = <<>>
             THEN << Message("Custom audio format selected but not specified. Skipping format option.", "") >>
             ELSE <<>>) \o
            (IF form.bitrate = <<"c","u","s","t","o","m">> /\ custom_bitrate = <<>>
             THEN << Message("Custom bitrate selected but not specified. Skipping bitrate option.", "") >>
             ELSE <<>>),
          raised |-> form.threads = <<>>,
          options |->
            (IF validated_output_path.path # <<>>
             THEN <<<<"-","-","o","u","t","p","u","t">>, validated_output_path.path[1]>> ELSE <<>>) \o
            (IF form.audio_format = <<"c","u","s","t","o","m">> /\ custom_format = <<>> THEN <<>>
             ELSE <<<<"-","-","f","o","r","m","a","t">>, IF form.audio_format = <<"c","u","s","t","o","m">>
                                  THEN custom_format ELSE form.audio_format>>) \o
            (IF form.bitrate = <<"c","u","s","t","o","m">> /\ custom_bitrate = <<>> THEN <<>>
             ELSE <<<<"-","-","b","i","t","r","a","t","e">>, CASE form.bitrate = <<"c","u","s","t","o","m">> -> custom_bitrate
                                     [] form.bitrate = <<"0"," ","(","b","e","s","t",")">> -> <<"0">>
                                     [] OTHER -> form.bitrate>>) \o
            (IF ~form.embed_lyrics THEN <<<<"-","-","n","o","-","l","y","r","i","c","s">>>> ELSE <<<<"-","-","l","y","r","i","c","s">>>>) \o
            (IF ~form.embed_metadata THEN <<<<"-","-","n","o","-","m","e","t","a","d","a","t","a">>>> ELSE <<>>) \o
            (IF form.sponsor_block THEN <<<<"-","-","s","p","o","n","s","o","r","-","b","l","o","c","k">>>> ELSE <<>>) \o
            <<<<"-","-","o","v","e","r","w","r","i","t","e">>, form.overwrite>> \o
            (IF form.threads # <<>> /\ form.threads[1] > 0
             THEN <<<<"-","-","t","h","r","e","a","d","s">>, str(form.threads[1])>> ELSE <<>>) ]
  IN  built(_validate_and_create_dir(form.output_dir, form.directory, cwd),
            LowerText(Strip(form.custom_audio_format)),
            LowerText(Strip(form.custom_bitrate)))

\* _get_advanced_args() on the text of the advanced arguments field: the
\* arguments shlex.split makes of it, or none and the warning for a text
\* it cannot parse.
_get_advanced_args(advanced_args_var) ==
  LET parsed(advanced_args_str, split) ==
        IF advanced_args_str = <<>> THEN [ notes |-> <<>>, args |-> <<>> ]
        ELSE IF split.raised
        THEN [ notes |-> << Message("Warning: Could not parse advanced arguments '{advanced_args_str}'. Check quoting: {e}", "") >>,
               args |-> <<>> ]
        ELSE [ notes |-> <<>>, args |-> split.args ]
  IN  parsed(Strip(advanced_args_var), shlex_split(Strip(advanced_args_var)))

\* The subcommand of spotdl an operation runs.
Subcommand(op) ==
  CASE op = "Download" -> <<"d","o","w","n","l","o","a","d">>
    [] op = "Save Metadata" -> <<"s","a","v","e">>
    [] op = "Sync" -> <<"s","y","n","c">>
    [] op = "Get Direct URLs" -> <<"u","r","l">>

\* save_file with '.spotdl' appended when it does not end with it.
WithSpotdlSuffix(save_file) ==
  IF EndsWith(save_file, <<".","s","p","o","t","d","l">>) THEN save_file ELSE save_file \o <<".","s","p","o","t","d","l">>

\* The action method of op returns before _run_spotdl_command: no URL in
\* the URL field, for a save no save file, for a sync no sync source.
GuiRefuses(op, urls_text, save_file) ==
  CASE op = "Sync" -> Strip(urls_text) = <<>>
    [] op = "Save Metadata" ->
         _get_urls_from_input(urls_text) = <<>> \/ Strip(save_file) = <<>>
    [] OTHER -> _get_urls_from_input(urls_text) = <<>>

\* What the action method logs when it returns early.
RefusalMessages(op, urls_text, save_file) ==
  CASE op = "Sync" ->
         << Message("Error: No Spotify URL or .spotdl file path provided in the URL field for sync.", "") >>
    [] urls_text = <<>> -> << Message("Error: No Spotify URLs provided.", "") >>
    [] _get_urls_from_input(urls_text) = <<>> -> <<>>
    [] OTHER ->
         << Message("Error: 'Save/Sync State File' must be specified for saving metadata.", "") >>

\* What the action method of op logs about the save file while it builds
\* the command; is_spotdl_file tells a sync source that is an existing
\* .spotdl file.
SaveFileNotes(op, save_file, is_spotdl_file) ==
  LET name == Strip(save_file)
      appended == IF EndsWith(name, <<".","s","p","o","t","d","l">>) THEN <<>>
                  ELSE << Message("Info: Appended '.spotdl' to {save_file}", op) >>
  IN  CASE op = "Save Metadata" -> appended
        [] op = "Sync" /\ ~is_spotdl_file /\ name # <<>> -> appended
        [] op = "Sync" /\ ~is_spotdl_file ->
             << Message("Info: No 'Save/Sync State File' provided for URL sync. Sync state won't be saved to a separate file.", "") >>
        [] OTHER -> <<>>

\* The command the action method of op builds from the URL field, the
\* save file field and the fields form, when _build_common_download_options
\* returns: the subcommand, the URLs or the sync source, and in the order
\* of the method the common options, --archive and --search-query of a
\* download, --save-file, and the advanced arguments.
GuiCommand(op, urls_text, save_file, is_spotdl_file, form, cwd) ==
  LET command(name, archive_file, search_query, common, advanced) ==
        <<<<"s","p","o","t","d","l">>, Subcommand(op)>> \o
        CASE op = "Sync" ->
               <<Strip(urls_text)>> \o common \o
               (IF ~is_spotdl_file /\ name # <<>>
                THEN <<<<"-","-","s","a","v","e","-","f","i","l","e">>, WithSpotdlSuffix(name)>> ELSE <<>>) \o
               advanced
          [] op = "Save Metadata" ->
               _get_urls_from_input(urls_text) \o
               <<<<"-","-","s","a","v","e","-","f","i","l","e">>, WithSpotdlSuffix(name)>> \o advanced
          [] op = "Download" ->
               _get_urls_from_input(urls_text) \o common \o
               (IF archive_file # <<>> THEN <<<<"-","-","a","r","c","h","i","v","e">>, archive_file>> ELSE <<>>) \o
               (IF search_query # <<>> THEN <<<<"-","-","s","e","a","r","c","h","-","q","u","e","r","y">>, search_query>> ELSE <<>>) \o
               advanced
          [] OTHER -> _get_urls_from_input(urls_text) \o advanced
  IN  command(Strip(save_file), Strip(form.archive_file), Strip(form.search_query),
              _build_common_download_options(form, cwd).options,
              _get_advanced_args(form.advanced_args).args)

\* What stdin holds when input() raises EOFError: nothing is left to read.
EOFError == <<"EOFError">>

\* What the user can have typed at the prompts an operation of the
\* terminal script comes to after the URLs and the save file, each answer
\* ended by Enter: the Enter alone at every prompt with '1' at the
\* choices; custom values, answers the prompts ask again for, and quoted
\* advanced arguments; customs left empty, the last choice and a quotation
\* left open; an input that ends before the last prompt; and the answers
\* about a playlist or album.
AnswerScripts ==
  { <<"\n", "1", "\n", "1", "\n", "\n", "\n", "\n", "1", "\n", "\n", "\n", "\n">>,
    <<"d">> \o <<"\n">> \o <<"7">> \o <<"\n">> \o <<" ","F","L","A","C">> \o <<"\n">> \o <<"7">> \o <<"\n">> \o
      <<"1","9","2","K">> \o <<"\n">> \o <<"n","o">> \o <<"\n">> \o <<"N","O">> \o <<"\n">> \o <<"y","e","s">> \o <<"\n">> \o
      <<"9">> \o <<"\n">> \o <<"x">> \o <<"\n">> \o <<"2">> \o <<"\n">> \o <<"0">> \o <<"\n">> \o
      <<"+","1","_","2"," ">> \o <<"\n">> \o <<" ","q"," ">> \o <<"\n">> \o <<"-","-","x"," ","'","y"," ","z","'">> \o <<"\n">>,
    <<"~","/","d","/">> \o <<"\n">> \o <<"7">> \o <<"\n", "\n">> \o <<"7">> \o <<"\n", "\n", "\n", "\n", "\n">> \o
      <<"3">> \o <<"\n", "\n", "\n", "\"", "\n">>,
    <<"\n", "1", "\n">>,
    <<"\n", "1", "\n", "1", "\n", "\n", "\n", "\n", "1", "\n", "\n">> \o
      <<"2">> \o <<"\n">> \o <<"-","1">> \o <<"\n", "\n">> \o <<"~","/","a",".","t","x","t">> \o <<"\n", "\n", "\n">> }

\* input() on what is left of stdin: the next line without its newline,
\* and what is left after it; at the end of stdin it raises EOFError.
input(stdin) ==
  LET ends == {k \in 1..Len(stdin) : stdin[k] = "\n"}
  IN  IF stdin = <<>> \/ stdin = EOFError THEN [ line |-> <<>>, rest |-> EOFError ]
      ELSE IF ends = {} THEN [ line |-> stdin, rest |-> <<>> ]
      ELSE [ line |-> SubSeq(stdin, 1, Minimum(ends) - 1),
             rest |-> SubSeq(stdin, Minimum(ends) + 1, Len(stdin)) ]

\* get_user_input(prompt, default), input() having returned line:
\* input(...).strip() or default; <<>> stands for no default, where the
\* stripped line is returned.
get_user_input(line, default) ==
  IF Strip(line) = <<>> THEN default ELSE Strip(line)

\* get_user_choice(prompt, options) on what is left of stdin: it asks
\* until the answer is the number of an option, and returns the option.
RECURSIVE get_user_choice(_, _)
get_user_choice(stdin, options) ==
  LET chosen(answer, choice) ==
        IF answer.rest = EOFError THEN [ value |-> <<>>, rest |-> EOFError ]
        ELSE IF choice # <<>> /\ 0 <= choice[1] - 1 /\ choice[1] - 1 < Len(options)
        THEN [ value |-> options[choice[1]], rest |-> answer.rest ]
        ELSE get_user_choice(answer.rest, options)
      asked(answer) == chosen(answer, int(get_user_input(answer.line, <<>>)))
  IN  asked(input(stdin))

\* get_numeric_input(prompt, default, min_value) on what is left of stdin;
\* default and the value returned are <<n>> for the number n and <<>> for
\* None.  It asks until the answer is empty or a number that is at least
\* min_value.
RECURSIVE get_numeric_input(_, _, _)
get_numeric_input(stdin, default, min_value) ==
  LET given(answer, user_input, value) ==
        IF answer.rest = EOFError THEN [ value |-> <<>>, rest |-> EOFError ]
        ELSE IF user_input = <<>> THEN [ value |-> default, rest |-> answer.rest ]
        ELSE IF value # <<>> /\ value[1] >= min_value
        THEN [ value |-> value, rest |-> answer.rest ]
        ELSE get_numeric_input(answer.rest, default, min_value)
      read(answer, user_input) == given(answer, user_input, int(user_input))
      asked(answer) ==
        read(answer, get_user_input(answer.line,
                                    IF default # <<>> THEN str(default[1]) ELSE <<>>))
  IN  asked(input(stdin))

\* validate_and_create_dir(path_str), the script running in cwd and the
\* file system answering directory: <<p>> for the Path p it returns, <<>>
\* for None.
validate_and_create_dir(path_str, directory, cwd) ==
  LET found(path) ==
        IF path_str # <<>> /\ DirectoryAt(path, directory, cwd) \in {"directory", "created"}
        THEN <<path>> ELSE <<>>
  IN  found(resolve(cwd, HomeDirectory, path_str))

\* common_download_options() on what is left of stdin: the options it
\* returns and what it leaves of stdin, EOFError when a prompt of it came
\* to the end of stdin.  ask(prompt, left, options) is the function from
\* the prompt named on, left being what is left of stdin and options what
\* it has collected; the prompts come in the order of the function, the
\* ones for a custom format and a custom bitrate after the choice
\* 'custom'.
common_download_options(stdin, directory, cwd) ==
  LET RECURSIVE ask(_, _, _)
      ask(prompt, left, options) ==
        LET output_dir(answer) ==
              LET validated(output_path) ==
                    ask("format", answer.rest,
                        IF output_path # <<>> THEN <<<<"-","-","o","u","t","p","u","t">>, output_path[1]>>
                        ELSE <<>>)
              IN  validated(validate_and_create_dir(get_user_input(answer.line, cwd),
                                                    directory, cwd))
            audio_format(answer) ==
              IF answer.value = <<"c","u","s","t","o","m">> THEN ask("custom format", answer.rest, options)
              ELSE ask("bitrate", answer.rest, options \o <<<<"-","-","f","o","r","m","a","t">>, answer.value>>)
            custom_format(answer, format) ==
              ask("bitrate", answer.rest,
                  IF format # <<>> THEN options \o <<<<"-","-","f","o","r","m","a","t">>, format>> ELSE options)
            bitrate(answer) ==
              IF answer.value = <<"c","u","s","t","o","m">> THEN ask("custom bitrate", answer.rest, options)
              ELSE ask("lyrics", answer.rest, options \o <<<<"-","-","b","i","t","r","a","t","e">>, answer.value>>)
            custom_bitrate(answer, rate) ==
              ask("lyrics", answer.rest,
                  IF rate # <<>> THEN options \o <<<<"-","-","b","i","t","r","a","t","e">>, rate>> ELSE options)
            lyrics(answer) ==
              ask("metadata", answer.rest,
                  IF LowerText(get_user_input(answer.line, <<"y","e","s">>)) = <<"n","o">>
                  THEN options \o <<<<"-","-","n","o","-","l","y","r","i","c","s">>>> ELSE options \o <<<<"-","-","l","y","r","i","c","s">>>>)
            metadata(answer) ==
              ask("sponsor", answer.rest,
                  IF LowerText(get_user_input(answer.line, <<"y","e","s">>)) = <<"n","o">>
                  THEN options \o <<<<"-","-","n","o","-","m","e","t","a","d","a","t","a">>>> ELSE options)
            sponsor(answer) ==
              ask("overwrite", answer.rest,
                  IF LowerText(get_user_input(answer.line, <<"n","o">>)) = <<"y","e","s">>
                  THEN options \o <<<<"-","-","s","p","o","n","s","o","r","-","b","l","o","c","k">>>> ELSE options)
            overwrite(answer) ==
              ask("threads", answer.rest, options \o <<<<"-","-","o","v","e","r","w","r","i","t","e">>, answer.value>>)
            threads(answer) ==
              [ rest |-> answer.rest,
                options |-> IF answer.value # <<>>
                            THEN options \o <<<<"-","-","t","h","r","e","a","d","s">>, str(answer.value[1])>>
                            ELSE options ]
        IN  CASE prompt = "output" -> output_dir(input(left))
              [] prompt = "format" ->
                   audio_format(get_user_choice(left,
                      <<<<"m","p","3">>, <<"m","4","a">>, <<"f","l","a","c">>, <<"o","p","u","s">>, <<"w","a","v">>, <<"a","a","c">>, <<"c","u","s","t","o","m">>>>))
              [] prompt = "custom format" ->
                   custom_format(input(left),
                                 LowerText(get_user_input(input(left).line, <<>>)))
              [] prompt = "bitrate" ->
                   bitrate(get_user_choice(left,
                      <<<<"0">>, <<"3","2","0","k">>, <<"2","5","6","k">>, <<"1","2","8","k">>, <<"a","u","t","o">>, <<"d","i","s","a","b","l","e">>, <<"c","u","s","t","o","m">>>>))
              [] prompt = "custom bitrate" ->
                   custom_bitrate(input(left),
                                  LowerText(get_user_input(input(left).line, <<>>)))
              [] prompt = "lyrics" -> lyrics(input(left))
              [] prompt = "metadata" -> metadata(input(left))
              [] prompt = "sponsor" -> sponsor(input(left))
              [] prompt = "overwrite" ->
                   overwrite(get_user_choice(left, <<<<"s","k","i","p">>, <<"f","o","r","c","e">>, <<"m","e","t","a","d","a","t","a">>>>))
              [] OTHER -> threads(get_numeric_input(left, <<4>>, 1))
  IN  ask("output", stdin, <<>>)

\* The operation of the terminal script returns before run_command: no
\* URL typed, for a save no file name, for a sync no source.
TerminalRefuses(op, urls_str, save_file_str) ==
  CASE op = "Sync" -> get_user_input(urls_str, <<>>) = <<>>
    [] op = "Save Metadata" ->
         urls_of(urls_str) = <<>> \/ get_user_input(save_file_str, <<>>) = <<>>
    [] OTHER -> urls_of(urls_str) = <<>>

\* The command the operation of the terminal script builds, the URL
\* prompt having read urls_str and the prompt for the save file
\* save_file_str, from what is left of stdin: command_parts, and what it
\* leaves of stdin, EOFError when a prompt came to the end of stdin and
\* the operation is left by the exception.  A sync appends the common
\* options after --save-file; a download asks, after the common options,
\* for the start, the end and the archive file when a URL has 'playlist'
\* or 'album' in it, then for the search query and the advanced
\* arguments, which are left out when shlex.split raises ValueError.
\* ask(prompt, left, parts) is download_songs from the prompt named on,
\* parts being the command so far.
TerminalCommand(op, urls_str, save_file_str, is_file, cwd, directory, stdin) ==
  LET head == <<<<"s","p","o","t","d","l">>, Subcommand(op)>>
      RECURSIVE ask(_, _, _)
      ask(prompt, left, parts) ==
        LET playlist_start(answer) ==
              ask("end", answer.rest,
                  IF answer.value # <<>>
                  THEN parts \o <<<<"-","-","p","l","a","y","l","i","s","t","-","s","t","a","r","t">>, str(answer.value[1])>> ELSE parts)
            playlist_end(answer) ==
              ask("archive", answer.rest,
                  IF answer.value # <<>>
                  THEN parts \o <<<<"-","-","p","l","a","y","l","i","s","t","-","e","n","d">>, str(answer.value[1])>> ELSE parts)
            archive(answer, archive_file_str) ==
              ask("search", answer.rest,
                  IF archive_file_str # <<>>
                  THEN parts \o <<<<"-","-","a","r","c","h","i","v","e">>, resolve(cwd, HomeDirectory, archive_file_str)>>
                  ELSE parts)
            search(answer, search_query) ==
              ask("advanced", answer.rest,
                  IF search_query # <<>> THEN parts \o <<<<"-","-","s","e","a","r","c","h","-","q","u","e","r","y">>, search_query>>
                  ELSE parts)
            advanced(answer, split) ==
              [ rest |-> answer.rest,
                command_parts |-> IF split.raised THEN parts ELSE parts \o split.args ]
        IN  CASE prompt = "start" -> playlist_start(get_numeric_input(left, <<>>, 1))
              [] prompt = "end" -> playlist_end(get_numeric_input(left, <<>>, 1))
              [] prompt = "archive" ->
                   archive(input(left), get_user_input(input(left).line, <<>>))
              [] prompt = "search" ->
                   search(input(left), get_user_input(input(left).line, <<>>))
              [] OTHER ->
                   advanced(input(left),
                            shlex_split(get_user_input(input(left).line, <<>>)))
      download(urls, common) ==
        ask(IF \E k \in 1..Len(urls) :
                  \/ Contains(LowerText(urls[k]), <<"p","l","a","y","l","i","s","t">>)
                  \/ Contains(LowerText(urls[k]), <<"a","l","b","u","m">>)
            THEN "start" ELSE "search",
            common.rest, head \o urls \o common.options)
      sync(sync_source_str, save_file, common) ==
        [ rest |-> common.rest,
          command_parts |->
            head \o <<sync_source_str>> \o
            (IF ~is_file /\ save_file # <<>>
             THEN <<<<"-","-","s","a","v","e","-","f","i","l","e">>, resolve(cwd, HomeDirectory, save_file)>> ELSE <<>>) \o
            common.options ]
      with_options(common) ==
        IF op = "Sync"
        THEN sync(get_user_input(urls_str, <<>>), get_user_input(save_file_str, <<>>), common)
        ELSE download(urls_of(urls_str), common)
  IN  CASE op \in {"Download", "Sync"} ->
             with_options(common_download_options(stdin, directory, cwd))
        [] op = "Save Metadata" ->
             [ rest |-> stdin,
               command_parts |->
                 head \o urls_of(urls_str) \o
                 <<<<"-","-","s","a","v","e","-","f","i","l","e">>,
                   resolve(cwd, HomeDirectory, get_user_input(save_file_str, <<>>))>> ]
        [] OTHER -> [ rest |-> stdin, command_parts |-> head \o urls_of(urls_str) ]

\* self.log_message(stripped_line)
LineMessage(stripped_line) == Message("{stripped_line}", "")

\* What the worker thread logs for a report.
SummaryMessages(report) ==
  CASE report.kind = "failed" ->
         << Message("--- Summary of Skipped/Failed Downloads ---", "") >> \o
         [k \in 1..Len(report.songs) |-> Message("- {song}", "")] \o
         << Message("-------------------------------------------", "") >>
    [] report.kind = "generic" ->
         << Message("No specific song failures detected, but the command failed. Review log.", "") >>
    [] OTHER ->
         << Message("All songs processed successfully or skipped as per rules.", "") >>

\* The operations that call _build_common_download_options.
DownloadOperations == {"Download", "Sync"}

\* The classifier called directly, outside a front-end.
NoFrontEnd ==
  /\ frontend = "none"
  /\ buttons = [b \in Buttons |-> "normal"]
  /\ run = [w \in Workers |-> IdleRun]
  /\ after_queue = 0
  /\ orphans = 0
  /\ NoDisplay
  /\ session = 0
  /\ save_file_var = <<>>

----------------------------------------------------------------------------
(* The classifier as a state machine: one action per branch of the loop.   *)

\* parse_failed_downloads called on a captured output.
Init ==
  /\ output_lines \in LogInputs
  /\ i = 0
  /\ failed_songs = {}
  /\ pc = "scan"
  /\ result = <<>>
  /\ NoFrontEnd

\* parse_failed_downloads called on a single composed line.
InitLine ==
  /\ output_lines \in {<<l>> : l \in ComposedLines \cup ExampleLines}
  /\ i = 0
  /\ failed_songs = {}
  /\ pc = "scan"
  /\ result = <<>>
  /\ NoFrontEnd

\* parse_failed_downloads called on an input of lines that share records.
InitSwap ==
  /\ output_lines \in SwapInputs
  /\ i = 0
  /\ failed_songs = {}
  /\ pc = "scan"
  /\ result = <<>>
  /\ NoFrontEnd

\* if explicit_match: ... i += 1; continue
ExplicitMatch ==
  /\ pc = "scan"
  /\ i < Len(output_lines)
  /\ explicit_match(output_lines[i + 1]).matched
  /\ failed_songs' = ExplicitBranch(failed_songs, output_lines[i + 1])
  /\ i' = i + 1
  /\ UNCHANGED <<output_lines, pc, result, front>>

\* The audio-provider branch with the cursor moved past the lines the
\* lookahead has read.
AudioProviderErrorSkipsWindow ==
  /\ pc = "scan"
  /\ i < Len(output_lines)
  /\ ~explicit_match(output_lines[i + 1]).matched
  /\ Contains(output_lines[i + 1], AudioProviderErrorMarker)
  /\ failed_songs' = AudioProviderBranch(failed_songs, output_lines, i)
  /\ i' = Min(i + 4, Len(output_lines))
  /\ UNCHANGED <<output_lines, pc, result, front>>

\* if "AudioProviderError:" in line: ... i += 1; continue
AudioProviderError ==
  /\ pc = "scan"
  /\ i < Len(output_lines)
  /\ ~explicit_match(output_lines[i + 1]).matched
  /\ Contains(output_lines[i + 1], AudioProviderErrorMarker)
  /\ IF Lookahead(output_lines, i).raised
     THEN /\ pc' = "raised"
          /\ UNCHANGED <<output_lines, i, failed_songs, result, front>>
     ELSE /\ failed_songs' = AudioProviderBranch(failed_songs, output_lines, i)
          /\ i' = i + 1
          /\ UNCHANGED <<output_lines, pc, result, front>>

\* i += 1 when neither pattern matched
NoMatchLine ==
  /\ pc = "scan"
  /\ i < Len(output_lines)
  /\ ~explicit_match(output_lines[i + 1]).matched
  /\ ~Contains(output_lines[i + 1], AudioProviderErrorMarker)
  /\ i' = i + 1
  /\ UNCHANGED <<output_lines, failed_songs, pc, result, front>>

\* return sorted(list(failed_songs)), once the while condition is false
Return ==
  /\ pc = "scan"
  /\ i >= Len(output_lines)
  /\ result' = Sorted(failed_songs)
  /\ pc' = "returned"
  /\ UNCHANGED <<output_lines, i, failed_songs, front>>

Next == ExplicitMatch \/ AudioProviderError \/ NoMatchLine \/ Return

Spec == Init /\ [][Next]_vars

SpecLine == InitLine /\ [][Next]_vars

SpecSwap == InitSwap /\ [][Next]_vars

\* How many lines the inputs have on which the end of the loop is checked.
MaxCursorLines == 3

CursorInputs == UNION {[1..n -> LogLines] : n \in 0..MaxCursorLines}

\* parse_failed_downloads called on a short captured output.
InitCursor ==
  /\ output_lines \in CursorInputs
  /\ i = 0
  /\ failed_songs = {}
  /\ pc = "scan"
  /\ result = <<>>
  /\ NoFrontEnd

\* The call goes on as long as it has a step to take.
SpecFair == InitCursor /\ [][Next]_vars /\ WF_vars(Next)

\* How many lines the inputs of repeated calls have.
MaxCallLines == 2

\* The arguments of repeated calls.
CallInputs == UNION {[1..n -> LogLines] : n \in 0..MaxCallLines}

\* The first of several calls of parse_failed_downloads.
InitCalls ==
  /\ output_lines \in CallInputs
  /\ i = 0
  /\ failed_songs = {}
  /\ pc = "scan"
  /\ result = <<>>
  /\ NoFrontEnd

\* A next call with failed_songs kept in a module-level set: the records of
\* the call before are still in it.
CallKeepingRecords ==
  /\ pc = "returned"
  /\ output_lines' \in CallInputs
  /\ i' = 0
  /\ pc' = "scan"
  /\ UNCHANGED <<failed_songs, result, front>>

\* The next call of parse_failed_downloads: failed_songs = set() and i = 0
\* are bound anew; the caller still holds the list returned before.
Call ==
  /\ pc = "returned"
  /\ output_lines' \in CallInputs
  /\ i' = 0
  /\ failed_songs' = {}
  /\ pc' = "scan"
  /\ UNCHANGED <<result, front>>

\* parse_failed_downloads called on lines with markers in several
\* capitalisations.
InitCase ==
  /\ output_lines \in CaseInputs
  /\ i = 0
  /\ failed_songs = {}
  /\ pc = "scan"
  /\ result = <<>>
  /\ NoFrontEnd

SpecCase == InitCase /\ [][Next]_vars

NextCalls == Next \/ Call

SpecCalls == InitCalls /\ [][NextCalls]_vars

----------------------------------------------------------------------------
(* The front-ends as a state machine: one action per step of run_command   *)
(* and of its callers, and of _run_spotdl_command, its worker thread and   *)
(* the Tk callbacks of the main thread.                                    *)

\* A front-end is started for a session of some operations; nothing runs
\* yet, the save file field is empty (tk.StringVar()) and the classifier is
\* not in a call.
InitFront ==
  /\ frontend \in {"terminal", "starting"}
  /\ buttons = [b \in Buttons |-> "normal"]
  /\ run = [w \in Workers |-> IdleRun]
  /\ after_queue = 0
  /\ orphans = 0
  /\ NoDisplay
  /\ session \in 0..MaxOperations
  /\ save_file_var = <<>>
  /\ output_lines = <<>>
  /\ i = 0
  /\ failed_songs = {}
  /\ pc = "idle"
  /\ result = <<>>

\* _toggle_buttons_state(state): the four buttons get the state.
_toggle_buttons_state(state) == [b \in Buttons |-> state]

\* The summary with the exit status tested first.
SummaryStatusFirst(songs, return_code) ==
  IF return_code # 0 THEN [kind |-> "generic", songs |-> <<>>]
  ELSE IF songs # <<>> THEN [kind |-> "failed", songs |-> songs]
  ELSE [kind |-> "success", songs |-> <<>>]

\* if failed_songs: ... elif return_code != 0: ... else: ...
Summary(songs, return_code) ==
  IF songs # <<>> THEN [kind |-> "failed", songs |-> songs]
  ELSE IF return_code # 0 THEN [kind |-> "generic", songs |-> <<>>]
  ELSE [kind |-> "success", songs |-> <<>>]

\* The external processes that exist: those a run has started and not
\* waited for, and the abandoned ones.
Subprocesses == Cardinality({w \in Workers : run[w].proc = "running"}) + orphans

\* What _check_dependencies logs: two messages for spotdl when
\* 'spotdl --version' fails, two for ffmpeg when 'ffmpeg -version' fails.
DependencyMessages(spotdl_found, ffmpeg_found) ==
  (IF spotdl_found THEN <<>>
   ELSE << Message("ERROR: spotDL command not found. Please ensure spotDL is installed and in your PATH.", ""),
           Message("You can install it using: pip install spotdl", "") >>) \o
  (IF ffmpeg_found THEN <<>>
   ELSE << Message("WARNING: FFmpeg not found. spotDL may not function correctly without it.", ""),
           Message("spotDL can try to download it for you. Run 'spotdl --download-ffmpeg' in your terminal.", "") >>)

\* SpotDLGUI.__init__ fails in _setup_layout: the three checkbuttons are
\* children of options_frame and are packed while its other children are
\* gridded, which Tk 8.6 refuses with a TclError.  _check_dependencies and
\* mainloop() are not reached and the program ends.
SetupLayoutRaises ==
  /\ frontend = "starting"
  /\ frontend' = "crashed"
  /\ UNCHANGED <<buttons, run, after_queue, orphans, classifier, session, save_file_var, request, display>>

\* SpotDLGUI.__init__ on a Tk that does not refuse the layout: the widgets
\* are laid out, _check_dependencies() logs what is missing (the two
\* commands it runs have ended when it returns) and mainloop() is entered.
_check_dependencies ==
  /\ frontend = "starting"
  /\ frontend' = "gui"
  /\ \E spotdl_found, ffmpeg_found \in BOOLEAN :
       console' = LogAll(console, DependencyMessages(spotdl_found, ffmpeg_found))
  /\ UNCHANGED <<buttons, run, after_queue, orphans, classifier, session, save_file_var, request,
                 log_call, clear_call>>

\* SpotDLGUI.__init__ fails in _check_dependencies: subprocess.run raises
\* something other than CalledProcessError and FileNotFoundError (a
\* PermissionError for a file that is not executable), for spotdl before
\* any message or for ffmpeg after what was logged about spotdl.
\* mainloop() is not reached and the program ends.
CheckDependenciesRaises ==
  /\ frontend = "starting"
  /\ frontend' = "crashed"
  /\ \E spotdl_found \in BOOLEAN :
       console' = LogAll(console, DependencyMessages(spotdl_found, TRUE))
  /\ UNCHANGED <<buttons, run, after_queue, orphans, classifier, session, save_file_var, request,
                 log_call, clear_call>>

\* _run_spotdl_command(command_parts, operation_name), called by the action
\* method with the command it has built and the console as its messages
\* have left it: the console is cleared for the two opening messages, the
\* buttons are disabled and the worker thread of run w is started.
_run_spotdl_command(built_console, command_parts, operation_name, w) ==
  /\ console' = log_message(log_message(built_console,
                                        StartingMessage(operation_name), TRUE),
                            ExecutingMessage(command_parts), FALSE)
  /\ buttons' = _toggle_buttons_state("disabled")
  /\ run' = [run EXCEPT ![w] = [IdleRun EXCEPT !.pc = "popen",
                                               !.operation_name = operation_name]]

\* The action method of op returns early for what the URL field and, when
\* it has been read, the save file field hold.
Refusal(op, urls_text, save_file) ==
  /\ console' = LogAll(console, RefusalMessages(op, urls_text, save_file))
  /\ request' = [ operation_name |-> op, urls_text |-> urls_text,
                  save_file |-> save_file, command_parts |-> <<>>,
                  outcome |-> "refused" ]
  /\ UNCHANGED <<buttons, run>>

\* The action method of op has logged notes while it built its command
\* and calls _run_spotdl_command with it, for the first run that is free.
\* The save file field holds what the method read from it, or, when the
\* method appended '.spotdl' to the stripped name, that name:
\* self.save_file_var.set(save_file).  A method that does not read the
\* field leaves it alone.
Start(op, urls_text, save_file, is_spotdl_file, notes, command) ==
  /\ request' = [ operation_name |-> op, urls_text |-> urls_text,
                  save_file |-> save_file,
                  command_parts |-> command,
                  outcome |-> "started" ]
  /\ _run_spotdl_command(
        LogAll(console, notes),
        command, op,
        CHOOSE w \in Workers :
           /\ run[w].pc = "idle"
           /\ \A v \in Workers : v < w => run[v].pc # "idle")
  /\ save_file_var' =
       CASE ~(op = "Save Metadata" \/ (op = "Sync" /\ ~is_spotdl_file)) -> save_file_var
         [] Strip(save_file) = <<>> -> save_file
         [] EndsWith(Strip(save_file), <<".","s","p","o","t","d","l">>) -> save_file
         [] OTHER -> WithSpotdlSuffix(Strip(save_file))

\* The user presses a button of the GUI and its action method
\* (_download_songs, _save_metadata, _sync_playlist, _get_direct_urls) runs
\* as one callback of the main loop: it returns early when a required
\* input is missing, or is left by the TclError of self.threads_var.get()
\* when the threads field does not hold a number, or logs what it finds
\* while it builds the command from the fields of the form and calls
\* _run_spotdl_command.  The request records the fields the method has
\* read; a save file name it has completed is written back to the field;
\* the field holds, when it is read, what was read or set last or what the
\* user has typed since.  A disabled button does not invoke its command.
\* Every press counts against the presses of the session, a refused one
\* too.
ActionMethod(op) ==
  /\ frontend = "gui"
  /\ session > 0
  /\ session' = session - 1
  /\ buttons[ButtonOf(op)] = "normal"
  /\ \E urls_text \in UrlTexts, cwd \in WorkingDirectories :
     \E form \in Forms(cwd) :
       LET common == _build_common_download_options(form, cwd)
           advanced == _get_advanced_args(form.advanced_args).notes
       IN
       \/ /\ op # "Save Metadata"
          /\ GuiRefuses(op, urls_text, <<>>)
          /\ Refusal(op, urls_text, <<>>)
          /\ UNCHANGED save_file_var
       \/ /\ op = "Save Metadata"
          /\ _get_urls_from_input(urls_text) = <<>>
          /\ Refusal(op, urls_text, <<>>)
          /\ UNCHANGED save_file_var
       \/ /\ op = "Save Metadata"
          /\ _get_urls_from_input(urls_text) # <<>>
          /\ \E save_file \in SaveFileTexts \cup {save_file_var} :
               IF GuiRefuses(op, urls_text, save_file)
               THEN /\ Refusal(op, urls_text, save_file)
                    /\ save_file_var' = save_file
               ELSE Start(op, urls_text, save_file, FALSE,
                          SaveFileNotes(op, save_file, FALSE) \o advanced,
                          GuiCommand(op, urls_text, save_file, FALSE, form, cwd))
       \/ /\ op = "Get Direct URLs"
          /\ ~GuiRefuses(op, urls_text, <<>>)
          /\ Start(op, urls_text, <<>>, FALSE, advanced,
                   GuiCommand(op, urls_text, <<>>, FALSE, form, cwd))
       \/ /\ op \in DownloadOperations
          /\ ~GuiRefuses(op, urls_text, <<>>)
          /\ IF common.raised
             THEN /\ console' = LogAll(console, common.notes)
                  /\ request' = [ operation_name |-> op, urls_text |-> urls_text,
                                  save_file |-> <<>>, command_parts |-> <<>>,
                                  outcome |-> "raised" ]
                  /\ UNCHANGED <<buttons, run, save_file_var>>
             ELSE \E is_spotdl_file \in
                        IF op = "Sync" /\ EndsWith(LowerText(Strip(urls_text)), <<".","s","p","o","t","d","l">>)
                        THEN BOOLEAN ELSE {FALSE} :
                    \E save_file \in IF op = "Sync" /\ ~is_spotdl_file
                                      THEN SaveFileTexts \cup {save_file_var}
                                      ELSE {<<>>} :
                      Start(op, urls_text, save_file, is_spotdl_file,
                            common.notes \o SaveFileNotes(op, save_file, is_spotdl_file)
                                         \o advanced,
                            GuiCommand(op, urls_text, save_file, is_spotdl_file, form, cwd))
  /\ UNCHANGED <<frontend, after_queue, orphans, classifier, log_call, clear_call>>

\* The Browse button of the save file field is pressed, _browse_save_file():
\* the dialog returns filepath, empty when it is cancelled, and a filepath
\* that is not empty is set in the field.
_browse_save_file ==
  /\ frontend = "gui"
  /\ \E filepath \in SaveFileTexts :
       save_file_var' = IF filepath # <<>> THEN filepath ELSE save_file_var
  /\ UNCHANGED <<frontend, buttons, run, after_queue, orphans, classifier, session,
                 request, display>>

\* The Clear Log button is pressed: _clear_log() run as a whole by the main
\* loop, between two other callbacks.
_clear_log ==
  /\ frontend = "gui"
  /\ console' = config(delete(config(console, "normal")), "disabled")
  /\ UNCHANGED <<frontend, buttons, run, after_queue, orphans, classifier, session, save_file_var,
                 request, log_call, clear_call>>

\* download_songs, save_metadata, sync_playlist or get_direct_urls of the
\* terminal script reaches its call of run_command, or returns before it
\* when a required input is missing, or is left by the EOFError of a
\* prompt that finds stdin at its end, which main_menu does not catch and
\* which ends the script.  Each prompt reads the next line of what is
\* typed: the URL prompt the first, the prompt for the save file, when the
\* operation comes to it, the line after it, and the prompts for the
\* options the lines that follow.  The operation is one of the choices the
\* user types at main_menu before 'Exit'.
TerminalOperation(op) ==
  /\ frontend = "terminal"
  /\ session > 0
  /\ run[1].pc = "idle"
  /\ \E typed_urls \in UrlTexts,
        typed_save_file \in IF op \in {"Save Metadata", "Sync"} THEN SaveFileTexts ELSE {<<>>},
        script \in IF op \in DownloadOperations THEN AnswerScripts ELSE {<<>>},
        directory \in IF op \in DownloadOperations THEN OutputDirectories ELSE {"directory"},
        cwd \in WorkingDirectories :
       LET stdin == typed_urls \o <<"\n">> \o
                    (IF op \in {"Save Metadata", "Sync"}
                     THEN typed_save_file \o <<"\n">> ELSE <<>>) \o
                    script
           urls == input(stdin)
           urls_str == urls.line
       IN  \E is_file \in
                 IF op = "Sync" /\ HasSpotdlSuffix(resolve(cwd, HomeDirectory,
                                                           get_user_input(urls_str, <<>>)))
                 THEN BOOLEAN ELSE {FALSE} :
             LET asked == CASE op = "Save Metadata" -> urls_of(urls_str) # <<>>
                            [] op = "Sync" -> get_user_input(urls_str, <<>>) # <<>> /\ ~is_file
                            [] OTHER -> FALSE
                 save_file == IF asked THEN input(urls.rest)
                              ELSE [ line |-> <<>>, rest |-> urls.rest ]
                 save_file_str == save_file.line
                 built(command) ==
                   IF command.rest = EOFError
                   THEN /\ request' = [ operation_name |-> op, urls_text |-> urls_str,
                                        save_file |-> save_file_str, command_parts |-> <<>>,
                                        outcome |-> "raised" ]
                        /\ session' = 0
                        /\ run' = run
                   ELSE /\ request' = [ operation_name |-> op, urls_text |-> urls_str,
                                        save_file |-> save_file_str,
                                        command_parts |-> command.command_parts,
                                        outcome |-> "started" ]
                        /\ session' = session - 1
                        /\ run' = [run EXCEPT ![1] = [IdleRun EXCEPT !.pc = "popen",
                                                                    !.operation_name = op]]
             IN  CASE save_file.rest = EOFError ->
                        /\ request' = [ operation_name |-> op, urls_text |-> urls_str,
                                        save_file |-> <<>>, command_parts |-> <<>>,
                                        outcome |-> "raised" ]
                        /\ session' = 0
                        /\ run' = run
                   [] TerminalRefuses(op, urls_str, save_file_str) ->
                        /\ request' = [ operation_name |-> op, urls_text |-> urls_str,
                                        save_file |-> save_file_str, command_parts |-> <<>>,
                                        outcome |-> "refused" ]
                        /\ session' = session - 1
                        /\ run' = run
                   [] OTHER ->
                        built(TerminalCommand(op, urls_str, save_file_str, is_file, cwd,
                                              directory, save_file.rest))
  /\ UNCHANGED <<frontend, buttons, after_queue, orphans, classifier, save_file_var, display>>

\* subprocess.Popen(...) starts the process, which is going to write
\* 'emitted' and to end with status 'exit'.  The action method has
\* returned and what it read from the form is gone; of command_parts the
\* code reads only command_parts[0], "spotdl", from here on.
Popen(w) ==
  /\ WorkerFree
  /\ run[w].pc = "popen"
  /\ \E out \in RawOutputs, code \in ExitCodes :
       run' = [run EXCEPT ![w].pc = "read", ![w].emitted = out,
                          ![w].exit = code, ![w].proc = "running"]
  /\ request' = NoRequest
  /\ UNCHANGED <<frontend, buttons, after_queue, orphans, classifier, session, save_file_var, display>>

\* subprocess.Popen(...) raises: the command is not found, or another error.
PopenRaises(w) ==
  /\ WorkerFree
  /\ run[w].pc = "popen"
  /\ \E exc \in {"FileNotFoundError", "Exception"} :
       run' = [run EXCEPT ![w].pc = "except", ![w].raised = exc]
  /\ request' = NoRequest
  /\ UNCHANGED <<frontend, buttons, after_queue, orphans, classifier, session, save_file_var, display>>

\* One round of the for loop that drops blank lines.
ReadLineSkippingBlank(w) ==
  /\ WorkerFree
  /\ run[w].pc = "read"
  /\ run[w].nread < Len(run[w].emitted)
  /\ LET line == run[w].emitted[run[w].nread + 1]
     IN  IF frontend = "gui"
         THEN /\ run' = [run EXCEPT ![w].pc = "append"]
              /\ log_call' = WorkerLogs(<<LineMessage(Strip(line))>>)
         ELSE /\ run' = [run EXCEPT ![w].nread = @ + 1,
                                    ![w].collected_lines =
                                       IF Strip(line) = <<>> THEN @
                                       ELSE Append(@, Strip(line))]
              /\ log_call' = log_call
  /\ UNCHANGED <<frontend, buttons, after_queue, orphans, classifier, session, save_file_var, request,
                 console, clear_call>>

\* One round of 'for line in iter(process.stdout.readline, "")'.  nread
\* counts the rounds that are over.  run_command prints the line and
\* appends line.strip() to collected_lines.  In the worker thread of the GUI
\* readline() has returned the line and stripped_line is about to be
\* logged; it is appended when log_message has returned (AppendLine).
ReadLine(w) ==
  /\ WorkerFree
  /\ run[w].pc = "read"
  /\ run[w].nread < Len(run[w].emitted)
  /\ LET line == run[w].emitted[run[w].nread + 1]
     IN  IF frontend = "gui"
         THEN /\ run' = [run EXCEPT ![w].pc = "append"]
              /\ log_call' = WorkerLogs(<<LineMessage(Strip(line))>>)
         ELSE /\ run' = [run EXCEPT ![w].nread = @ + 1,
                                    ![w].collected_lines = Append(@, Strip(line))]
              /\ log_call' = log_call
  /\ UNCHANGED <<frontend, buttons, after_queue, orphans, classifier, session, save_file_var, request,
                 console, clear_call>>

\* collected_lines.append(stripped_line) in the worker thread of the GUI,
\* after self.log_message(stripped_line) has returned: the round is over.
AppendLine(w) ==
  /\ WorkerFree
  /\ frontend = "gui"
  /\ run[w].pc = "append"
  /\ run' = [run EXCEPT ![w].pc = "read", ![w].nread = @ + 1,
                         ![w].collected_lines =
                            Append(@, Strip(run[w].emitted[run[w].nread + 1]))]
  /\ UNCHANGED <<frontend, buttons, after_queue, orphans, classifier, session, save_file_var, request, display>>

\* readline() raises (a line that does not decode): the loop is left with
\* the process still running.
ReadRaises(w) ==
  /\ WorkerFree
  /\ run[w].pc = "read"
  /\ run[w].nread < Len(run[w].emitted)
  /\ run' = [run EXCEPT ![w].pc = "except", ![w].raised = "Exception"]
  /\ UNCHANGED <<frontend, buttons, after_queue, orphans, classifier, session, save_file_var, request, display>>

\* The process ends, its output written to the pipe, read or not.
ProcessExits(w) ==
  /\ run[w].proc = "running"
  /\ run' = [run EXCEPT ![w].proc = "exited"]
  /\ UNCHANGED <<frontend, buttons, after_queue, orphans, classifier, session, save_file_var, request, display>>

\* readline() returns "" once the output is read and the process has closed
\* it: process.stdout.close(), return_code = process.wait(), and the message
\* for the exit status.
Wait(w) ==
  /\ WorkerFree
  /\ run[w].pc = "read"
  /\ run[w].nread = Len(run[w].emitted)
  /\ run[w].proc = "exited"
  /\ run' = [run EXCEPT ![w].pc = "ran", ![w].return_code = <<run[w].exit>>]
  /\ log_call' =
       WorkerLogs(<< IF run[w].exit # 0
                     THEN Message("--- {operation_name} Failed with Exit Code {return_code} ---",
                                  run[w].operation_name)
                     ELSE Message("--- {operation_name} Completed Successfully ---",
                                  run[w].operation_name) >>)
  /\ UNCHANGED <<frontend, buttons, after_queue, orphans, classifier, session, save_file_var, request,
                 console, clear_call>>

\* Except clauses that return 1 with an empty list.
ExceptReturnNoLines(w) ==
  /\ WorkerFree
  /\ frontend = "terminal"
  /\ run[w].pc = "except"
  /\ run' = [run EXCEPT ![w].pc = "ran", ![w].return_code = <<1>>,
                         ![w].collected_lines = <<>>]
  /\ UNCHANGED <<frontend, buttons, after_queue, orphans, classifier, session, save_file_var, request, display>>

\* The except clauses of run_command: return 1, collected_lines.
ExceptReturn(w) ==
  /\ WorkerFree
  /\ frontend = "terminal"
  /\ run[w].pc = "except"
  /\ run' = [run EXCEPT ![w].pc = "ran", ![w].return_code = <<1>>]
  /\ UNCHANGED <<frontend, buttons, after_queue, orphans, classifier, session, save_file_var, request, display>>

\* The except clauses of the worker thread: the error is logged and the
\* rest of the try block is skipped.
ExceptLog(w) ==
  /\ WorkerFree
  /\ frontend = "gui"
  /\ run[w].pc = "except"
  /\ run' = [run EXCEPT ![w].pc = "finally"]
  /\ log_call' =
       WorkerLogs(IF run[w].raised = "FileNotFoundError"
                  THEN << Message("Error: The command '{command_parts[0]}' was not found.", ""),
                          Message("Ensure 'spotdl' (and 'ffmpeg') are installed and in your system's PATH.", "") >>
                  ELSE << Message("An unexpected error occurred: {e}", "") >>)
  /\ UNCHANGED <<frontend, buttons, after_queue, orphans, classifier, session, save_file_var, request,
                 console, clear_call>>

\* Where a run goes on after the summary: the worker thread to its finally
\* clause, the terminal script to the end of the operation.
AfterSummary == IF frontend = "gui" THEN "finally" ELSE "return"

\* The classifier a front-end calls: its own copy.
FrontEndClassifier(lines) ==
  IF frontend = "gui" THEN _parse_failed_downloads(lines)
  ELSE parse_failed_downloads(lines)

\* A summary that also classifies while the output is being read, once
\* more at each call.
SummarizeStreaming(w) ==
  /\ WorkerFree
  /\ run[w].pc \in {"read", "ran"}
  /\ run[w].operation_name \in Summarized
  /\ Len(run[w].parsed) < 2
  /\ LET songs == FrontEndClassifier(run[w].collected_lines)
     IN  /\ run' = [run EXCEPT ![w].pc = IF @ = "ran" THEN AfterSummary ELSE @,
                               ![w].parsed = Append(@, run[w].collected_lines),
                               ![w].reports =
                                  IF run[w].pc = "ran"
                                  THEN Append(@, Summary(songs, run[w].return_code[1]))
                                  ELSE @]
         /\ log_call' = WorkerLogs(
                           IF run[w].pc = "ran"
                           THEN SummaryMessages(run'[w].reports[Len(run'[w].reports)])
                           ELSE <<>>)
  /\ UNCHANGED <<frontend, buttons, after_queue, orphans, classifier, session, save_file_var, request,
                 console, clear_call>>

\* failed_songs = parse_failed_downloads(collected_lines) and the report
\* that follows it, after a download or a sync.
Summarize(w) ==
  /\ WorkerFree
  /\ run[w].pc = "ran"
  /\ run[w].operation_name \in Summarized
  /\ run' = [run EXCEPT ![w].pc = AfterSummary,
                        ![w].parsed = Append(@, run[w].collected_lines),
                        ![w].reports =
                           Append(@, Summary(FrontEndClassifier(run[w].collected_lines),
                                             run[w].return_code[1]))]
  /\ log_call' = WorkerLogs(SummaryMessages(run'[w].reports[Len(run'[w].reports)]))
  /\ UNCHANGED <<frontend, buttons, after_queue, orphans, classifier, session, save_file_var, request,
                 console, clear_call>>

\* The other operations end without a summary.
NoSummary(w) ==
  /\ WorkerFree
  /\ run[w].pc = "ran"
  /\ run[w].operation_name \notin Summarized
  /\ run' = [run EXCEPT ![w].pc = AfterSummary]
  /\ UNCHANGED <<frontend, buttons, after_queue, orphans, classifier, session, save_file_var, request, display>>

\* finally: self.after(0, self._toggle_buttons_state, tk.NORMAL).  The
\* worker thread is still alive when self.after has returned.
Finally(w) ==
  /\ WorkerFree
  /\ frontend = "gui"
  /\ run[w].pc = "finally"
  /\ after_queue' = after_queue + 1
  /\ run' = [run EXCEPT ![w].pc = "return"]
  /\ UNCHANGED <<frontend, buttons, orphans, classifier, session, save_file_var, request, display>>

\* The operation of the terminal script returns to the menu, the function
\* target of the GUI returns and its thread ends; the locals, operation_name
\* and collected_lines with them, are gone.  A process that was started
\* and not waited for is left behind.
OperationReturns(w) ==
  /\ WorkerFree
  /\ run[w].pc = "return"
  /\ orphans' = orphans + (IF run[w].proc = "running" THEN 1 ELSE 0)
  /\ run' = [run EXCEPT ![w] = IdleRun]
  /\ UNCHANGED <<frontend, buttons, after_queue, classifier, session, save_file_var, request, display>>

\* log_message, called by the worker thread for the first message it has
\* to log: self.output_console.config(state=tk.NORMAL).  Each widget call
\* of the worker thread is run by the main loop, between two callbacks.
LogSetNormal ==
  /\ log_call.pc = "idle"
  /\ log_call.pending # <<>>
  /\ console' = config(console, "normal")
  /\ log_call' = [log_call EXCEPT !.pc = "insert"]
  /\ UNCHANGED <<frontend, buttons, run, after_queue, orphans, classifier, session, save_file_var,
                 request, clear_call>>

\* self.output_console.insert(tk.END, message + "\n") and see(tk.END); the
\* message is lost when the widget is in the disabled state.
LogInsert ==
  /\ log_call.pc = "insert"
  /\ console' = insert(console, Head(log_call.pending))
  /\ log_call' = [log_call EXCEPT !.pc = "disable"]
  /\ UNCHANGED <<frontend, buttons, run, after_queue, orphans, classifier, session, save_file_var,
                 request, clear_call>>

\* self.output_console.config(state=tk.DISABLED) and update_idletasks();
\* log_message returns.
LogSetDisabled ==
  /\ log_call.pc = "disable"
  /\ console' = config(console, "disabled")
  /\ log_call' = [log_call EXCEPT !.pc = "idle", !.pending = Tail(@)]
  /\ UNCHANGED <<frontend, buttons, run, after_queue, orphans, classifier, session, save_file_var,
                 request, clear_call>>

\* The main loop of Tk runs a callback scheduled with after(0, ...).
AfterCallback ==
  /\ after_queue > 0
  /\ buttons' = _toggle_buttons_state("normal")
  /\ after_queue' = after_queue - 1
  /\ UNCHANGED <<frontend, run, orphans, classifier, session, save_file_var, request, display>>

\* An abandoned process ends on its own.
OrphanExits ==
  /\ orphans > 0
  /\ orphans' = orphans - 1
  /\ UNCHANGED <<frontend, buttons, run, after_queue, classifier, session, save_file_var, request, display>>

NextFront ==
  \/ SetupLayoutRaises
  \/ _check_dependencies
  \/ CheckDependenciesRaises
  \/ \E op \in GuiOperations : ActionMethod(op)
  \/ _clear_log
  \/ _browse_save_file
  \/ \E op \in TerminalOperations : TerminalOperation(op)
  \/ \E w \in Workers :
       \/ Popen(w)
       \/ PopenRaises(w)
       \/ ReadLine(w)
       \/ AppendLine(w)
       \/ ReadRaises(w)
       \/ ProcessExits(w)
       \/ Wait(w)
       \/ ExceptReturn(w)
       \/ ExceptLog(w)
       \/ Summarize(w)
       \/ NoSummary(w)
       \/ Finally(w)
       \/ OperationReturns(w)
  \/ LogSetNormal
  \/ LogInsert
  \/ LogSetDisabled
  \/ AfterCallback
  \/ OrphanExits

SpecFront == InitFront /\ [][NextFront]_vars

----------------------------------------------------------------------------
(* The console while the worker thread logs and Clear Log is pressed: each *)
(* widget call of log_message and of _clear_log is one step.               *)

\* A GUI operation is under way: _run_spotdl_command has logged its two
\* opening messages and disabled the buttons, and the worker thread reads
\* the output of the process it has started.
InitLog ==
  /\ frontend = "gui"
  /\ buttons = _toggle_buttons_state("disabled")
  /\ \E out \in RawOutputs \ {<<>>}, code \in ExitCodes :
       run = [w \in Workers |->
                IF w = 1
                THEN [IdleRun EXCEPT !.pc = "read", !.operation_name = "Get Direct URLs",
                                     !.emitted = out, !.exit = code, !.proc = "running"]
                ELSE IdleRun]
  /\ after_queue = 0
  /\ orphans = 0
  /\ request = NoRequest
  /\ console = [ state |-> "disabled",
                 lines |-> << StartingMessage("Get Direct URLs"),
                              ExecutingMessage(<<<<"s","p","o","t","d","l">>, <<"u","r","l">>, <<"u">>>>) >> ]
  /\ log_call = NoLogCall
  /\ clear_call = NoClearCall
  /\ session = 0
  /\ save_file_var = <<>>
  /\ output_lines = <<>>
  /\ i = 0
  /\ failed_songs = {}
  /\ pc = "idle"
  /\ result = <<>>

\* Clear Log is pressed, _clear_log():
\* self.output_console.config(state=tk.NORMAL).
ClearSetNormal ==
  /\ clear_call.pc = "idle"
  /\ clear_call.cleared < MaxClears
  /\ console' = config(console, "normal")
  /\ clear_call' = [clear_call EXCEPT !.pc = "delete"]
  /\ UNCHANGED <<frontend, buttons, run, after_queue, orphans, classifier, session, save_file_var,
                 request, log_call>>

\* self.output_console.delete(1.0, tk.END)
ClearDelete ==
  /\ clear_call.pc = "delete"
  /\ console' = delete(console)
  /\ clear_call' = [clear_call EXCEPT !.pc = "disable"]
  /\ UNCHANGED <<frontend, buttons, run, after_queue, orphans, classifier, session, save_file_var,
                 request, log_call>>

\* self.output_console.config(state=tk.DISABLED); _clear_log returns.
ClearSetDisabled ==
  /\ clear_call.pc = "disable"
  /\ console' = config(console, "disabled")
  /\ clear_call' = [clear_call EXCEPT !.pc = "idle", !.cleared = @ + 1]
  /\ UNCHANGED <<frontend, buttons, run, after_queue, orphans, classifier, session, save_file_var,
                 request, log_call>>

NextLog ==
  \/ \E w \in Workers : ReadLine(w) \/ AppendLine(w)
  \/ LogSetNormal
  \/ LogInsert
  \/ LogSetDisabled
  \/ ClearSetNormal
  \/ ClearDelete
  \/ ClearSetDisabled

SpecLog == InitLog /\ [][NextLog]_vars

----------------------------------------------------------------------------
(* Vocabulary of the properties.                                           *)

\* The records of a returned list, as a set.
Records(r) == {r[k] : k \in 1..Len(r)}

\* a sorts strictly before b: they agree up to some position where a has
\* ended or has the smaller code point.
StrictlyBefore(a, b) ==
  \E k \in 1..Len(b) :
     /\ k <= Len(a) + 1
     /\ SubSeq(a, 1, k - 1) = SubSeq(b, 1, k - 1)
     /\ k = Len(a) + 1 \/ Ord(a[k]) < Ord(b[k])

\* The line takes the audio-provider-error branch when it is the current line.
IsTrigger(line) ==
  /\ ~explicit_match(line).matched
  /\ Contains(line, AudioProviderErrorMarker)

\* The line contains a YouTube watch URL.
HasUrl(line) == url_match(line) # <<>>

\* The 0-based indices at, at+1, at+2, at+3 that exist in lines.
Window(lines, at) == {j \in at..(at + 3) : j <= Len(lines) - 1}

\* The lines of the window of the line at 0-based index at that hold a URL.
UrlLines(lines, at) == {j \in Window(lines, at) : HasUrl(lines[j + 1])}

\* The loop is about to examine a line that takes the audio-provider branch.
AtTrigger ==
  /\ pc = "scan"
  /\ i < Len(output_lines)
  /\ IsTrigger(output_lines[i + 1])

----------------------------------------------------------------------------
(* Properties of the returned list and of the lookahead, under Spec.       *)

\* C1: the returned list is in strictly ascending lexicographic order, so it
\* is sorted and holds no record twice, whatever the lines and their order.
C1_SortedNoDuplicates ==
  pc = "returned" =>
    \A a, b \in 1..Len(result) : a < b => StrictlyBefore(result[a], result[b])

\* C1 witness: a returned list of three records or more from an input in which
\* two lines produce the same explicit record.
C1_Witness ==
  /\ pc = "returned"
  /\ Len(result) >= 3
  /\ \E a, b \in 1..Len(output_lines) :
        /\ a < b
        /\ output_lines[a] = output_lines[b]
        /\ Strip(explicit_match(output_lines[a]).group1) \in Records(result)

\* C5: when the line at index i takes the audio-provider branch and some line
\* of i .. min(i+3, n-1) holds a YouTube watch URL, the step adds exactly the
\* URL-form record of the leftmost match of the lowest-indexed such line, and
\* no fallback record.
C5_UrlRecordOfFirstUrlLine ==
  [][(AtTrigger /\ UrlLines(output_lines, i) # {}) =>
       failed_songs' = failed_songs \cup
         {UrlRecord(url_match(
            output_lines[Minimum(UrlLines(output_lines, i)) + 1]))}]_vars

\* C5 witness: the three lines of the specification's example have been
\* classified and the list holds exactly the URL-form record.
C5_Witness ==
  /\ pc = "returned"
  /\ output_lines = << <<"E","R","R","O","R"," ","A","u","d","i","o","P","r","o","v","i","d","e","r","E","r","r","o","r",":"," ","s","o","m","e","t","h","i","n","g">>,
                       <<"s","o","m","e"," ","n","o","i","s","e">>,
                       <<"h","t","t","p","s",":","/","/","m","u","s","i","c",".","y","o","u","t","u","b","e",".","c","o","m","/","w","a","t","c","h","?","v","=","a","b","c","1","2","3","X","Y","Z","_","-">> >>
  /\ result = << <<"D","o","w","n","l","o","a","d"," ","f","a","i","l","e","d"," ","f","o","r"," ","Y","o","u","T","u","b","e"," ","U","R","L",":"," ","h","t","t","p","s",":","/","/","m","u","s","i","c",".","y","o","u","t","u","b","e",".","c","o","m","/","w","a","t","c","h","?","v","=","a","b","c","1","2","3","X","Y","Z","_","-"," ","(","A","u","d","i","o","P","r","o","v","i","d","e","r","E","r","r","o","r",")">> >>

\* C6: when the line at index i takes the audio-provider branch and no line of
\* i .. min(i+3, n-1) holds a URL, the step adds exactly the fallback record
\* quoting line i, wherever else in the sequence a URL occurs.
C6_FallbackOutsideWindow ==
  [][(AtTrigger /\ UrlLines(output_lines, i) = {}) =>
       failed_songs' = failed_songs \cup {FallbackRecord(output_lines[i + 1])}]_vars

\* C6 witness: the first line is an error line, the only URLs are on the
\* fifth line, and the list holds the fallback record of the first line and
\* no URL-form record of the fifth.
C6_Witness ==
  /\ pc = "returned"
  /\ Len(output_lines) = 5
  /\ IsTrigger(output_lines[1])
  /\ \A k \in 1..4 : ~HasUrl(output_lines[k])
  /\ HasUrl(output_lines[5])
  /\ FallbackRecord(output_lines[1]) \in Records(result)
  /\ UrlRecord(url_match(output_lines[5])) \notin Records(result)

\* C7: the classifier never raises: no lookahead indexes outside the sequence
\* and the cursor stays inside it; what it returns is the list of the records
\* found, and for the empty sequence the empty list.
C7_Total ==
  /\ pc # "raised"
  /\ i \in 0..Len(output_lines)
  /\ pc = "returned" => Records(result) = failed_songs
  /\ (pc = "returned" /\ output_lines = <<>>) => result = <<>>

\* C7 witness: a list has been returned for a sequence whose last line is an
\* error line without a URL, so that its window was clipped to one line.
C7_Witness ==
  /\ pc = "returned"
  /\ output_lines # <<>>
  /\ IsTrigger(output_lines[Len(output_lines)])
  /\ FallbackRecord(output_lines[Len(output_lines)]) \in Records(result)

\* C9 as stated: every record returned for a prefix of the sequence is also
\* returned for the whole sequence.
C9_PrefixRecordsKept ==
  pc = "returned" =>
    \A n \in 0..Len(output_lines) :
       Records(parse_failed_downloads(SubSeq(output_lines, 1, n))) \subseteq Records(result)

\* C9 amended: every record returned for a prefix P is also returned for the
\* whole sequence, except possibly the fallback record of an error line among
\* the last three lines of P, whose window the end of P cut short.
C9_PrefixRecordsKeptButLateFallbacks ==
  pc = "returned" =>
    \A n \in 0..Len(output_lines) :
       \A r \in Records(parse_failed_downloads(SubSeq(output_lines, 1, n))) :
          \/ r \in Records(result)
          \/ \E t \in 1..n :
                /\ t >= n - 2
                /\ IsTrigger(output_lines[t])
                /\ r = FallbackRecord(output_lines[t])

\* C9 witness: five lines, the first an error line whose fallback record is
\* returned for the prefix of four lines and for all five, though the fifth
\* line holds a URL.
C9_Witness ==
  /\ pc = "returned"
  /\ Len(output_lines) = 5
  /\ IsTrigger(output_lines[1])
  /\ HasUrl(output_lines[5])
  /\ FallbackRecord(output_lines[1])
       \in Records(parse_failed_downloads(SubSeq(output_lines, 1, 4)))
  /\ FallbackRecord(output_lines[1]) \in Records(result)

----------------------------------------------------------------------------
(* Properties of the explicit-failure pattern, under SpecLine: the input   *)
(* is one line.                                                            *)

\* The text of line after the marker phrase m and its colon found at k.
TextAfter(line, k, m) == SubSeq(line, k + Len(MarkerColon[m]), Len(line))

\* The positions of the colons of a text.
Colons(text) == {t \in 1..Len(text) : text[t] = ":"}

\* The text before its first colon.
BeforeFirstColon(text) == SubSeq(text, 1, Minimum(Colons(text)) - 1)

\* The positions of line where some marker phrase followed by a colon starts.
MarkerPositions(line) ==
  {k \in 1..Len(line) : \E m \in 1..Len(MarkerColon) : StartsAt(line, k, MarkerColon[m])}

\* A list has been returned for a one-line input.
ReturnedForOneLine == pc = "returned" /\ Len(output_lines) = 1

\* C2 as stated: for the one line 'Could not find a match for:' T ':' reason,
\* with T free of colons and not blank, the list is exactly <<T trimmed>>.
C2_CouldNotFindRecordsTitle ==
  ReturnedForOneLine =>
    LET line == output_lines[1]
        rest == SubSeq(line, Len(MarkerPhrases[1]) + 1, Len(line))
    IN  (/\ StartsAt(line, 1, MarkerPhrases[1])
         /\ Colons(rest) # {}
         /\ Strip(BeforeFirstColon(rest)) # <<>>)
        => result = <<Strip(BeforeFirstColon(rest))>>

\* C3 as stated: for a line that is any prefix, then 'Failed to download:' or
\* 'Track found but download failed:', then a text T free of colons and not
\* blank, the list is exactly <<T trimmed>>.
C3_FailedToDownloadRecordsTitle ==
  ReturnedForOneLine =>
    LET line == output_lines[1]
    IN  \A k \in 1..Len(line) : \A m \in {2, 3} :
          (/\ StartsAt(line, k, MarkerColon[m])
           /\ Colons(TextAfter(line, k, m)) = {}
           /\ Strip(TextAfter(line, k, m)) # <<>>)
          => result = <<Strip(TextAfter(line, k, m))>>

\* C3 amended: the same, for a prefix in which no marker phrase followed by a
\* colon starts.
C3_FirstMarkerRecordsTitle ==
  ReturnedForOneLine =>
    LET line == output_lines[1]
    IN  \A k \in 1..Len(line) : \A m \in {2, 3} :
          (/\ StartsAt(line, k, MarkerColon[m])
           /\ k = Minimum(MarkerPositions(line))
           /\ Colons(TextAfter(line, k, m)) = {}
           /\ Strip(TextAfter(line, k, m)) # <<>>)
          => result = <<Strip(TextAfter(line, k, m))>>

\* C3 witness: the specification's example line has been classified.
C3_Witness ==
  /\ pc = "returned"
  /\ output_lines = << <<"F","a","i","l","e","d"," ","t","o"," ","d","o","w","n","l","o","a","d",":"," ","A","n","o","t","h","e","r"," ","S","o","n","g">> >>
  /\ result = << <<"A","n","o","t","h","e","r"," ","S","o","n","g">> >>

\* C4: when the text after the colon of the first marker of the line holds a
\* colon, what is recorded is the text before that colon, trimmed (nothing when
\* it is blank), and nothing of what follows it.
C4_TruncatedAtNextColon ==
  ReturnedForOneLine =>
    LET line == output_lines[1]
    IN  MarkerPositions(line) # {} =>
          LET k == Minimum(MarkerPositions(line))
              m == CHOOSE x \in 1..Len(MarkerColon) : StartsAt(line, k, MarkerColon[x])
              text == TextAfter(line, k, m)
          IN  Colons(text) # {} =>
                result = IF Strip(BeforeFirstColon(text)) = <<>>
                         THEN <<>>
                         ELSE <<Strip(BeforeFirstColon(text))>>

\* C4 witness: the title 'Song: Remix Version' has been recorded as 'Song'.
C4_Witness ==
  /\ pc = "returned"
  /\ output_lines = << <<"F","a","i","l","e","d"," ","t","o"," ","d","o","w","n","l","o","a","d",":"," ","S","o","n","g",":"," ","R","e","m","i","x"," ","V","e","r","s","i","o","n">> >>
  /\ result = << <<"S","o","n","g">> >>

\* C8 as stated: the list is empty exactly when no line has a non-empty
\* explicit capture and no line contains 'AudioProviderError:', and every
\* record is the explicit capture of a line or the URL-form or fallback record
\* of a line that contains 'AudioProviderError:'.
C8_OnlyMatchingLinesContribute ==
  pc = "returned" =>
    /\ result = <<>> <=>
         \A k \in 1..Len(output_lines) :
            /\ Strip(explicit_match(output_lines[k]).group1) = <<>>
            /\ ~Contains(output_lines[k], AudioProviderErrorMarker)
    /\ \A r \in Records(result) :
         \E k \in 1..Len(output_lines) :
            \/ r = Strip(explicit_match(output_lines[k]).group1)
            \/ /\ Contains(output_lines[k], AudioProviderErrorMarker)
               /\ \/ r = FallbackRecord(output_lines[k])
                  \/ \E j \in Window(output_lines, k - 1) :
                        r = UrlRecord(url_match(output_lines[j + 1]))

----------------------------------------------------------------------------
(* Swapping two lines that produce the same record, under SpecSwap.        *)

\* The record the line at 0-based index at produces where it stands, as a set
\* of one record, or {} when it produces none.
RecordAt(lines, at) == ScanLine({}, lines, at)

\* lines with the lines at positions a and b exchanged.
Swap(lines, a, b) ==
  [k \in 1..Len(lines) |->
     IF k = a THEN lines[b] ELSE IF k = b THEN lines[a] ELSE lines[k]]

\* The lines at positions a < b each produce the same record.
SameRecord(lines, a, b) ==
  /\ a < b
  /\ RecordAt(lines, a - 1) # {}
  /\ RecordAt(lines, a - 1) = RecordAt(lines, b - 1)

\* C10 as stated: swapping two lines that each produce the same record leaves
\* the returned list unchanged.
C10_SwapSameRecord ==
  pc = "returned" =>
    \A a, b \in 1..Len(output_lines) :
       SameRecord(output_lines, a, b) =>
         parse_failed_downloads(Swap(output_lines, a, b)) = result

\* C10 amended: swapping two lines that each produce the same record and hold
\* no YouTube watch URL leaves the returned list unchanged.
C10_SwapSameRecordNoUrl ==
  pc = "returned" =>
    \A a, b \in 1..Len(output_lines) :
       (/\ SameRecord(output_lines, a, b)
        /\ ~HasUrl(output_lines[a])
        /\ ~HasUrl(output_lines[b]))
       => parse_failed_downloads(Swap(output_lines, a, b)) = result

\* C10 witness: two different lines without URL produce the same record, behind
\* an error line whose window covers both, and the swapped input returns the
\* same list.
C10_Witness ==
  /\ pc = "returned"
  /\ \E a, b \in 2..Len(output_lines) :
        /\ SameRecord(output_lines, a, b)
        /\ output_lines[a] # output_lines[b]
        /\ ~HasUrl(output_lines[a])
        /\ ~HasUrl(output_lines[b])
        /\ IsTrigger(output_lines[1])
        /\ parse_failed_downloads(Swap(output_lines, a, b)) = result

----------------------------------------------------------------------------
(* Properties of repeated calls, under SpecCalls.                          *)

\* C11: the classifier is a pure function of its argument.  No step of a
\* call changes the input sequence, and the list a call returns is the
\* value of parse_failed_downloads on that call's input whatever the calls
\* before it were given and returned: two runs on the same sequence return
\* identical lists and nothing survives from one call to the next.
C11_PureFunction ==
  [][ /\ pc = "scan" => output_lines' = output_lines
      /\ pc = "scan" /\ pc' = "returned" =>
           result' = parse_failed_downloads(output_lines) ]_vars

\* A later call is about to return records none of which the call before
\* returned.
C11_Witness ==
  /\ pc = "scan"
  /\ i = Len(output_lines)
  /\ result # <<>>
  /\ failed_songs # {}
  /\ failed_songs \cap Records(result) = {}

----------------------------------------------------------------------------
(* Properties of the front-ends, under SpecFront.                          *)

\* The operation of run w has done everything but return (terminal) or
\* schedule the re-enabling of the buttons (GUI).
Over(w) == run[w].pc \in {"finally", "return"}

\* Run w was a download or a sync and is over.
SummarizedOver(w) == Over(w) /\ run[w].operation_name \in Summarized

\* The one report of run w is the one that the classifier's result on the
\* collected lines and the exit status select, and the classifier was given
\* the collected lines and nothing else.
OneReportChosen(w) ==
  /\ Len(run[w].reports) = 1
  /\ run[w].parsed = <<run[w].collected_lines>>
  /\ LET songs == parse_failed_downloads(run[w].collected_lines)
         status == run[w].return_code[1]
         report == run[w].reports[1]
     IN  /\ report.kind \in {"failed", "generic", "success"}
         /\ report.kind = "failed" <=> songs # <<>>
         /\ report.kind = "failed" => report.songs = songs
         /\ report.kind = "generic" <=> songs = <<>> /\ status # 0
         /\ report.kind = "success" <=> songs = <<>> /\ status = 0

\* C12 as claimed: after every download or sync command exactly one of the
\* three reports is produced, chosen from the classifier's result and the
\* exit status: the records if there are any, whatever the exit status, else
\* the generic message if the status is non-zero, else the success summary.
C12_ExactlyOneReport ==
  \A w \in Workers : SummarizedOver(w) => OneReportChosen(w)

\* C12 as amended: the same, except that the worker thread of the GUI makes
\* no report at all (and does not call the classifier) when starting the
\* command or reading its output raised; the terminal script then reports
\* with exit status 1 and the lines collected so far.
C12_OneReportUnlessGuiRaised ==
  \A w \in Workers : SummarizedOver(w) =>
     IF frontend = "gui" /\ run[w].raised # "none"
     THEN run[w].reports = <<>> /\ run[w].parsed = <<>>
     ELSE OneReportChosen(w)

\* A GUI download or sync whose process ended with status 0 has listed
\* failure records.
C12_Witness ==
  \E w \in Workers :
     /\ SummarizedOver(w)
     /\ frontend = "gui"
     /\ run[w].return_code = <<0>>
     /\ Len(run[w].reports) = 1
     /\ run[w].reports[1].kind = "failed"

\* The first n lines of what the process of run w wrote, each stripped.
StrippedPrefix(w, n) == [k \in 1..n |-> Strip(run[w].emitted[k])]

\* The Process Runner of run w has come back with return_code and
\* collected_lines: run_command has returned, the worker thread is past
\* process.wait().
RunnerReturned(w) == run[w].pc = "ran"

\* C13 as claimed: whenever the runner has come back and the process it
\* started has ended, it has that process's exit status and one entry per line the
\* process wrote, in order, each stripped, blank lines kept as empty entries.
C13_StatusAndEveryLine ==
  \A w \in Workers : RunnerReturned(w) /\ run[w].proc = "exited" =>
     /\ run[w].return_code = <<run[w].exit>>
     /\ run[w].collected_lines = StrippedPrefix(w, Len(run[w].emitted))

\* C13 as amended: the same when the output was read to its end without an
\* error; at every moment collected_lines is the stripped lines read so far,
\* in order; when reading raised, that prefix with status 1 is what the
\* terminal runner returns, and the worker thread of the GUI has left the
\* loop with that prefix and never gets a status: it does not reach
\* process.wait().
C13_StatusAndEveryLineRead ==
  \A w \in Workers :
     /\ run[w].collected_lines = StrippedPrefix(w, run[w].nread)
     /\ RunnerReturned(w) /\ run[w].proc # "none" =>
          IF run[w].raised = "none"
          THEN /\ run[w].return_code = <<run[w].exit>>
               /\ run[w].nread = Len(run[w].emitted)
          ELSE /\ frontend = "terminal"
               /\ run[w].return_code = <<1>>
     /\ frontend = "gui" /\ run[w].raised # "none" =>
          /\ run[w].pc \in {"except", "finally", "return"}
          /\ run[w].return_code = <<>>

\* The runner has come back from a process that ended with status 1 after a
\* blank line and a line with blanks around its text.
C13_Witness ==
  \E w \in Workers :
     /\ RunnerReturned(w)
     /\ run[w].raised = "none"
     /\ run[w].return_code = <<1>>
     /\ Len(run[w].emitted) = 2
     /\ run[w].collected_lines[1] = <<>>
     /\ run[w].collected_lines[2] # run[w].emitted[2]
     /\ run[w].collected_lines[2] # <<>>

\* The classifier has been invoked in run w.
Classified(w) == run[w].parsed # <<>>

\* C14 as claimed: in each command the classifier is invoked at most once,
\* not while lines are being read, on every collected line, and only after
\* the process has exited and its whole output has been collected.
C14_ClassifiedAfterExit ==
  \A w \in Workers :
     /\ Len(run[w].parsed) <= 1
     /\ Classified(w) =>
          /\ run[w].pc # "read"
          /\ run[w].parsed[1] = run[w].collected_lines
          /\ run[w].proc # "running"
          /\ run[w].nread = Len(run[w].emitted)

\* C14 as amended: at most once, not while lines are being read, on every
\* collected line, and after the runner has come back; that is after the
\* process has exited and its whole output has been collected, unless
\* starting or reading raised in the terminal script, where the classifier
\* then gets the lines collected so far.  The GUI does not classify then.
C14_ClassifiedAfterRunner ==
  \A w \in Workers :
     /\ Len(run[w].parsed) <= 1
     /\ Classified(w) =>
          /\ run[w].pc \in {"finally", "return"}
          /\ run[w].parsed[1] = run[w].collected_lines
          /\ run[w].collected_lines = StrippedPrefix(w, run[w].nread)
          /\ IF run[w].raised = "none"
             THEN run[w].proc = "exited" /\ run[w].nread = Len(run[w].emitted)
             ELSE frontend = "terminal" /\ run[w].return_code = <<1>>

\* The worker thread of the GUI has classified the two lines of a process
\* that has exited.
C14_Witness ==
  \E w \in Workers :
     /\ frontend = "gui"
     /\ Classified(w)
     /\ Len(run[w].parsed[1]) = 2
     /\ run[w].proc = "exited"

----------------------------------------------------------------------------
(* Properties of the patterns' spelling, under SpecCase.                   *)

\* The four markers as the claim spells them.
ClaimedMarkers ==
  { <<"C","o","u","l","d"," ","n","o","t"," ","f","i","n","d"," ","a"," ","m","a","t","c","h"," ","f","o","r",":">>, <<"F","a","i","l","e","d"," ","t","o"," ","d","o","w","n","l","o","a","d">>,
    <<"T","r","a","c","k"," ","f","o","u","n","d"," ","b","u","t"," ","d","o","w","n","l","o","a","d"," ","f","a","i","l","e","d">>, <<"A","u","d","i","o","P","r","o","v","i","d","e","r","E","r","r","o","r",":">> }

\* The text w occurs in line exactly as spelled.
Occurs(line, w) ==
  \E k \in 1..Len(line) :
     k + Len(w) - 1 <= Len(line) /\ SubSeq(line, k, k + Len(w) - 1) = w

\* The line holds a marker, but none in the capitalisation of the patterns.
OtherCaseOnly(line) ==
  /\ \E w \in ClaimedMarkers : ContainsIgnoringCase(line, w)
  /\ \A w \in ClaimedMarkers : ~Occurs(line, w)

\* C15: matching is case-sensitive.  The step that examines a line holding
\* a marker only in another capitalisation adds no record, and an input of
\* such lines only returns the empty list.
C15_CaseSensitive ==
  [][ /\ ( /\ pc = "scan"
           /\ i < Len(output_lines)
           /\ OtherCaseOnly(output_lines[i + 1]) ) => failed_songs' = failed_songs
      /\ ( /\ pc' = "returned"
           /\ \A k \in 1..Len(output_lines) : OtherCaseOnly(output_lines[k]) )
         => result' = <<>> ]_vars

\* The list for the two lines 'failed to download: X' and
\* 'audioprovidererror: x' has been returned.
C15_Witness ==
  /\ pc = "returned"
  /\ output_lines = << <<"f","a","i","l","e","d"," ","t","o"," ","d","o","w","n","l","o","a","d",":"," ","X">>, <<"a","u","d","i","o","p","r","o","v","i","d","e","r","e","r","r","o","r",":"," ","x">> >>
  /\ result = <<>>

----------------------------------------------------------------------------
(* Properties of the shapes of the records, under Spec.                    *)

\* The text starts with head and ends with tail, with room for both.
Frames(text, head, tail) ==
  /\ Len(text) >= Len(head) + Len(tail)
  /\ SubSeq(text, 1, Len(head)) = head
  /\ SubSeq(text, Len(text) - Len(tail) + 1, Len(text)) = tail

\* The shape 'Download failed for YouTube URL: ... (AudioProviderError)'.
UrlShape(r) ==
  Frames(r, <<"D","o","w","n","l","o","a","d"," ","f","a","i","l","e","d"," ","f","o","r"," ","Y","o","u","T","u","b","e"," ","U","R","L",":"," ">>, <<" ","(","A","u","d","i","o","P","r","o","v","i","d","e","r","E","r","r","o","r",")">>)

\* The shape "Download failed due to AudioProviderError (details in log: '...')".
FallbackShape(r) ==
  Frames(r, <<"D","o","w","n","l","o","a","d"," ","f","a","i","l","e","d"," ","d","u","e"," ","t","o"," ","A","u","d","i","o","P","r","o","v","i","d","e","r","E","r","r","o","r"," ","(","d","e","t","a","i","l","s"," ","i","n"," ","l","o","g",":"," ","'">>, <<"'",")">>)

\* C16: the three shapes exclude one another.  What a line adds in the
\* explicit branch holds no colon and has neither of the other two shapes;
\* what a line adds in the audio-provider branch holds a colon and has the
\* URL shape when the lookahead found a URL and the fallback shape when it
\* did not, never both; and the returned list holds just these records.
C16_ShapesExclusive ==
  pc = "returned" =>
    /\ Records(result) =
         UNION {RecordAt(output_lines, at) : at \in 0..(Len(output_lines) - 1)}
    /\ \A at \in 0..(Len(output_lines) - 1) :
         \A r \in RecordAt(output_lines, at) :
            IF explicit_match(output_lines[at + 1]).matched
            THEN Colons(r) = {} /\ ~UrlShape(r) /\ ~FallbackShape(r)
            ELSE /\ Colons(r) # {}
                 /\ UrlShape(r) <=> UrlLines(output_lines, at) # {}
                 /\ FallbackShape(r) <=> UrlLines(output_lines, at) = {}

\* A returned list with a record of each shape, the explicit one cut at the
\* colon of a URL.
C16_Witness ==
  /\ pc = "returned"
  /\ \E r \in Records(result) : UrlShape(r)
  /\ \E r \in Records(result) : FallbackShape(r)
  /\ \E r \in Records(result) : r = <<"T"," ","-"," ","h","t","t","p","s">>

----------------------------------------------------------------------------
(* Properties of the order of the two tests, under SpecLine.               *)

\* The explicit pattern matches the line with a capture that is not empty
\* after strip().
Captured(line) ==
  explicit_match(line).matched /\ Strip(explicit_match(line).group1) # <<>>

\* C17: a line is tested for the audio-provider error whenever it yielded no
\* non-empty explicit capture.  In the list returned for one line: a line
\* that contains 'AudioProviderError:' and has no such capture (no match, or
\* a match with an empty capture) gives an audio-provider-error record, and
\* a line with such a capture gives that capture as its only record.
C17_TestedUnlessCaptured ==
  ReturnedForOneLine =>
    LET line == output_lines[1]
    IN  /\ ~Captured(line) /\ Contains(line, AudioProviderErrorMarker) =>
             \E r \in Records(result) : UrlShape(r) \/ FallbackShape(r)
        /\ Captured(line) => result = <<Strip(explicit_match(line).group1)>>

----------------------------------------------------------------------------
(* Properties of the cursor, under SpecFair.                               *)

\* C18: the cursor starts at 0 and every branch moves it by exactly 1, so
\* the loop examines the lines 0, 1, ... one after the other, returns when
\* the cursor is len(lines) and not before, and does return.  A line that an
\* earlier line has read as lookahead is examined when the cursor reaches
\* it: the returned list holds what every line produces where it stands.
C18_CursorVisitsEveryLine ==
  /\ i = 0
  /\ [][ pc = "scan" =>
           \/ i < Len(output_lines) /\ i' = i + 1 /\ pc' = "scan"
           \/ i = Len(output_lines) /\ i' = i /\ pc' = "returned" ]_vars
  /\ [](pc = "returned" =>
           Records(result) =
             UNION {RecordAt(output_lines, at) : at \in 0..(Len(output_lines) - 1)})
  /\ <>(pc = "returned")

\* Two audio-provider-error lines without a URL were followed by a line
\* that holds a URL and is itself an explicit failure: the list has the one
\* URL record that serves both and the record of the third line.
C18_Witness ==
  /\ pc = "returned"
  /\ Len(output_lines) = 3
  /\ IsTrigger(output_lines[1]) /\ ~HasUrl(output_lines[1])
  /\ IsTrigger(output_lines[2]) /\ ~HasUrl(output_lines[2])
  /\ Captured(output_lines[3]) /\ HasUrl(output_lines[3])
  /\ Cardinality(Records(result)) = 2
  /\ \E r \in Records(result) : UrlShape(r)
  /\ \E r \in Records(result) : Colons(r) = {}

----------------------------------------------------------------------------
(* The two copies of the classifier, under Spec.                           *)

\* C19: the copy of the GUI returns, for every input, the list that the
\* classifier of the terminal script returns.
C19_CopiesAgree ==
  pc = "returned" => result = _parse_failed_downloads(output_lines)

\* The terminal classifier has returned a URL record for an error line
\* whose URL stands three lines further on, at the end of the window.
C19_Witness ==
  /\ pc = "returned"
  /\ \E at \in 0..(Len(output_lines) - 4) :
        /\ IsTrigger(output_lines[at + 1])
        /\ UrlLines(output_lines, at) = {at + 3}
  /\ \E r \in Records(result) : UrlShape(r)
  /\ result = _parse_failed_downloads(output_lines)

----------------------------------------------------------------------------
(* Properties of the buttons and the worker thread of the GUI, under       *)
(* SpecFront.                                                              *)

\* The worker threads that have been started and have not ended.
LiveWorkers == {w \in Workers : run[w].pc # "idle"}

\* While a worker thread lives the four buttons are disabled: they were
\* disabled before it was started and are enabled only after it has ended.
ButtonsGuardWorker ==
  LiveWorkers # {} => \A b \in Buttons : buttons[b] = "disabled"

\* C20: in the GUI the four buttons are disabled before the worker thread
\* is started and enabled again only after it has finished, on every exit
\* path; so at most one worker thread and at most one subprocess exist at
\* any time.
C20_OneWorkerOneSubprocess ==
  frontend = "gui" =>
    /\ ButtonsGuardWorker
    /\ Cardinality(LiveWorkers) <= 1
    /\ Subprocesses <= 1

----------------------------------------------------------------------------
(* The terminal Process Runner when the command fails to start or to be    *)
(* read, under SpecFront.                                                  *)

\* The run_command call of run w has come back through an except clause.
ReturnedAfterError(w) ==
  /\ frontend = "terminal"
  /\ run[w].raised # "none"
  /\ run[w].pc \in {"ran", "return"}

\* C22: when Popen or the reading of the output raises, run_command of the
\* terminal script returns status 1 with the lines collected until then,
\* none when the process never started; the download or sync that called it
\* then ends with one report, the generic one when the classifier finds no
\* failure in those lines and the list of failures otherwise, never the
\* success report.
C22_ErrorReturnsStatusOneAndLines ==
  \A w \in Workers : ReturnedAfterError(w) =>
     /\ run[w].return_code = <<1>>
     /\ run[w].collected_lines = StrippedPrefix(w, run[w].nread)
     /\ run[w].proc = "none" => run[w].collected_lines = <<>>
     /\ run[w].pc = "return" /\ run[w].operation_name \in Summarized =>
          /\ Len(run[w].reports) = 1
          /\ run[w].parsed = <<run[w].collected_lines>>
          /\ LET songs == parse_failed_downloads(run[w].collected_lines)
             IN  run[w].reports[1] =
                   IF songs = <<>> THEN [kind |-> "generic", songs |-> <<>>]
                   ELSE [kind |-> "failed", songs |-> songs]

\* C22 witness: a terminal download whose reading raised after a line
\* without a failure was collected, ended with the generic report.
C22_Witness ==
  \E w \in Workers :
     /\ ReturnedAfterError(w)
     /\ run[w].operation_name = "Download"
     /\ run[w].raised = "Exception"
     /\ run[w].proc # "none"
     /\ run[w].collected_lines # <<>>
     /\ run[w].reports = <<[kind |-> "generic", songs |-> <<>>]>>

----------------------------------------------------------------------------
(* Operations asked for without their required input, under SpecFront.     *)

\* The text is empty or holds whitespace only.
Blank(text) == \A k \in 1..Len(text) : IsSpace(text[k])

\* The operation was asked for without the input it requires: no URL for a
\* download, a save or a url operation, no save file for a save, no source
\* for a sync; an input of whitespace only is no input, since every one of
\* them is tested after str.strip().
MissingInput(req) ==
  \/ /\ req.operation_name \in {"Download", "Save Metadata", "Get Direct URLs"}
     /\ Blank(req.urls_text)
  \/ /\ req.operation_name = "Save Metadata"
     /\ Blank(req.save_file)
  \/ /\ req.operation_name = "Sync"
     /\ Blank(req.urls_text)

\* C23: in both front-ends an operation asked for without its required
\* input (URL input empty or only whitespace for download, save and url,
\* save file empty or only whitespace for save, source empty or only
\* whitespace for sync) returns without building or running a command: it
\* is refused with no command, and the step in which it is asked for
\* starts no run and no process, the runs and the processes being after
\* it what they were before it (a worker thread of an earlier operation
\* can still be on its way out).
C23_NoProcessWithoutInput ==
  /\ [](MissingInput(request) =>
          /\ request.outcome = "refused"
          /\ request.command_parts = <<>>)
  /\ [][(session' # session /\ MissingInput(request')) =>
          /\ run' = run
          /\ Subprocesses' = Subprocesses]_vars

\* C23 witness: the GUI has refused a save whose URL field held only a
\* space and a newline, without logging anything and without a run.
C23_Witness ==
  /\ frontend = "gui"
  /\ request.operation_name = "Save Metadata"
  /\ request.urls_text = <<" ", "\n">>
  /\ request.outcome = "refused"
  /\ console.lines = <<>>
  /\ \A w \in Workers : run[w] = IdleRun

----------------------------------------------------------------------------
(* The console at the start of a GUI operation, under SpecFront.           *)

\* The step starts the worker thread of run w.
WorkerStarts(w) ==
  /\ frontend = "gui"
  /\ run[w].pc = "idle"
  /\ run'[w].pc = "popen"

\* C24: in the GUI, at the moment a worker thread is started the console
\* holds exactly the '--- Starting <operation> ---' line and the
\* 'Executing: ...' line, so whatever was logged before, the messages of the
\* command building included, has been erased.
C24_ConsoleClearedAtStart ==
  [][ \A w \in Workers : WorkerStarts(w) =>
        /\ request'.outcome = "started"
        /\ console'.state = "disabled"
        /\ console'.lines = << StartingMessage(run'[w].operation_name),
                               ExecutingMessage(request'.command_parts) >> ]_vars

\* C24 witness: the worker thread of a save has just been started for the
\* save file 'f', whose building logs that '.spotdl' was appended, and the
\* console holds the two opening lines only.
C24_Witness ==
  \E w \in Workers :
     /\ frontend = "gui"
     /\ run[w].pc = "popen"
     /\ run[w].operation_name = "Save Metadata"
     /\ request.outcome = "started"
     /\ SaveFileNotes("Save Metadata", request.save_file, FALSE) # <<>>
     /\ console.lines = << StartingMessage("Save Metadata"),
                           ExecutingMessage(request.command_parts) >>

----------------------------------------------------------------------------
(* Clear Log against the logging of the worker thread, under SpecLog.      *)

\* C21: whatever the interleaving of the widget calls of _clear_log with
\* those of the worker's log_message, no insert reaches the console while
\* it is read-only, so no logged line is lost, and the console is read-only
\* whenever neither call is under way.
C21_NoInsertWhileReadOnly ==
  /\ log_call.pc = "insert" => console.state = "normal"
  /\ log_call.pc = "idle" /\ clear_call.pc = "idle" => console.state = "disabled"

====
